---------------------------- MODULE Spec2Model ----------------------------
(***************************************************************************)
(* The IPPcode23 interpreter of src/interpret.py as a state machine.       *)
(*                                                                         *)
(* The state is the Memory singleton (operand stack, call stack, frame     *)
(* stack, the three frames, program counter, label table), the program     *)
(* being interpreted, what has been printed to standard output and the     *)
(* exit code of the process.  One action per opcode models                 *)
(* Instruction.execute of that opcode together with the fetch and the      *)
(* increment of the program counter that processXML does before it.        *)
(*                                                                         *)
(* Python values are tagged records [t, v] (t the name of the Python       *)
(* type); strings are sequences of code points.                            *)
(***************************************************************************)
EXTENDS Integers, Sequences, FiniteSets, TLC

VARIABLES
    program,            \* children: the instruction elements, in document order
    stack,              \* Memory._stack
    call_stack,         \* Memory._call_stack
    frame_stack,        \* Memory._frame_stack
    global_frame,       \* Memory._global_frame
    local_frame,        \* Memory._local_frame
    temporary_frame,    \* Memory._temporary_frame
    program_counter,    \* Memory._program_counter
    labels,             \* Memory._labels
    stdout,             \* what print() has written, one element per call
    stdin,              \* sys.stdin: the lines input() has not read yet
    exit_code           \* <<>> while the process runs, <<n>> once it exited with n

vars == <<program, stack, call_stack, frame_stack, global_frame, local_frame,
          temporary_frame, program_counter, labels, stdout, stdin, exit_code>>

---------------------------------------------------------------------------
\* Bounds of the model.

\* Longest program (number of instruction elements).
MaxProg == 4
\* Most instructions one run of the instruction stream executes.
MaxSteps == 6
\* Deepest operand stack, call stack and frame stack.
MaxStack == 1
MaxCalls == 2
MaxFrames == 2
\* Most print() calls.
MaxOut == 1
\* Most instructions one run of the arithmetic stream executes.
MaxOps == 3
\* Most instructions one run of the input stream executes, and most lines
\* of input.
MaxReads == 3
MaxLines == 2
\* Highest program counter at which the stream of frame, stack and jump
\* instructions is fetched.
MaxTurns == 3
\* Longest program without jumps (number of instruction elements).
MaxStraight == 3

---------------------------------------------------------------------------
\* Interpreter error codes (lines 9-18).

WRONG_XML_STRUCTURE_ERROR_CODE == 32
SEMANTIC_ERROR_CODE == 52
WRONG_OPERAND_TYPE_ERROR_CODE == 53
UNDEFINED_VARIABLE_ERROR_CODE == 54
NON_EXISTING_FRAME_ERROR_CODE == 55
MISSING_VALUE_ERROR_CODE == 56
WRONG_OPERAND_VALUE_ERROR_CODE == 57
STRING_OPERATION_ERROR_CODE == 58

\* Check flags (lines 20-31).  A flag word is the set of its flags: a | b is
\* the union and (check & FLAG) # 0 is FLAG \subseteq check.
VALUE_TYPE_INT_CHECK == {"INT"}
VALUE_TYPE_BOOL_CHECK == {"BOOL"}
VALUE_TYPE_STRING_CHECK == {"STRING"}
VALUE_TYPE_NIL_CHECK == {"NIL"}
VALUE_TYPE_NOT_NIL_CHECK == {"NOT_NIL"}
VALUE_TYPE_SAME_CHECK == {"SAME"}

VARIABLE_DEFINED_CHECK == {"DEFINED"}
VARIABLE_NULL_CHECK == {"NULL"}
VARIABLE_CORRECT_FRAME_CHECK == {"CORRECT_FRAME"}

---------------------------------------------------------------------------
\* Python values.

\* A Python int is an integer of any size.  Its value is kept as its sign
\* and the digits of its magnitude in base Base, least significant first and
\* the most significant one not 0; the magnitude 0 has no digit.
Base == 10000

signed(neg, digits) == [neg |-> neg /\ digits # << >>, digits |-> digits]

\* The digits of the natural number n / the number digits stand for.
RECURSIVE nat_digits(_)
nat_digits(n) == IF n = 0 THEN << >> ELSE <<n % Base>> \o nat_digits(n \div Base)

RECURSIVE nat_value(_)
nat_value(digits) ==
    IF digits = << >> THEN 0 ELSE digits[1] + Base * nat_value(Tail(digits))

\* The int that is the integer n / the integer that the (small) int x is.
long(n) == IF n < 0 THEN signed(TRUE, nat_digits(0 - n)) ELSE signed(FALSE, nat_digits(n))
int_value(x) == IF x.neg THEN 0 - nat_value(x.digits) ELSE nat_value(x.digits)

\* digits without its most significant zeros.
RECURSIVE nat_strip(_)
nat_strip(digits) ==
    IF digits # << >> /\ digits[Len(digits)] = 0
    THEN nat_strip(SubSeq(digits, 1, Len(digits) - 1)) ELSE digits

\* a < b of magnitudes.
RECURSIVE nat_less(_, _)
nat_less(a, b) ==
    IF Len(a) # Len(b) THEN Len(a) < Len(b)
    ELSE IF a = << >> THEN FALSE
    ELSE IF a[Len(a)] # b[Len(b)] THEN a[Len(a)] < b[Len(b)]
    ELSE nat_less(SubSeq(a, 1, Len(a) - 1), SubSeq(b, 1, Len(b) - 1))

\* a + b + carry of magnitudes.
RECURSIVE nat_add(_, _, _)
nat_add(a, b, carry) ==
    IF a = << >> /\ b = << >> THEN IF carry = 0 THEN << >> ELSE <<carry>>
    ELSE LET sum == (IF a = << >> THEN 0 ELSE a[1])
                    + (IF b = << >> THEN 0 ELSE b[1]) + carry
         IN <<sum % Base>> \o nat_add(IF a = << >> THEN << >> ELSE Tail(a),
                                      IF b = << >> THEN << >> ELSE Tail(b),
                                      sum \div Base)

\* a - b - borrow of magnitudes, a >= b + borrow; as many digits as a has.
RECURSIVE nat_sub(_, _, _)
nat_sub(a, b, borrow) ==
    IF a = << >> THEN << >>
    ELSE LET difference == a[1] - (IF b = << >> THEN 0 ELSE b[1]) - borrow
         IN <<IF difference < 0 THEN difference + Base ELSE difference>>
            \o nat_sub(Tail(a), IF b = << >> THEN << >> ELSE Tail(b),
                       IF difference < 0 THEN 1 ELSE 0)

\* a * digit + carry of a magnitude and one digit; as many digits as a has, or
\* one more.
RECURSIVE nat_mul_digit(_, _, _)
nat_mul_digit(a, digit, carry) ==
    IF a = << >> THEN IF carry = 0 THEN << >> ELSE <<carry>>
    ELSE LET product == a[1] * digit + carry
         IN <<product % Base>> \o nat_mul_digit(Tail(a), digit, product \div Base)

\* a * b of magnitudes.
RECURSIVE nat_mul(_, _)
nat_mul(a, b) ==
    IF a = << >> \/ b = << >> THEN << >>
    ELSE LET rest == nat_mul(Tail(a), b)
         IN nat_add(nat_strip(nat_mul_digit(b, a[1], 0)),
                    IF rest = << >> THEN << >> ELSE <<0>> \o rest, 0)

\* a div b of magnitudes, b # 0, when it is one digit: the digit in
\* low..(high - 1) whose product with b is the last one not above a.
RECURSIVE nat_div_digit(_, _, _, _)
nat_div_digit(a, b, low, high) ==
    IF high - low = 1 THEN low
    ELSE LET middle == (low + high) \div 2
         IN IF nat_less(a, nat_strip(nat_mul_digit(b, middle, 0)))
            THEN nat_div_digit(a, b, low, middle)
            ELSE nat_div_digit(a, b, middle, high)

\* <<a div b, a mod b>> of magnitudes, b # 0, by long division: the digits
\* above the lowest are divided first, and their remainder with the lowest
\* digit under it gives the lowest digit of the quotient.
RECURSIVE nat_divmod(_, _)
nat_divmod(a, b) ==
    IF a = << >> THEN << << >>, << >> >>
    ELSE LET above == nat_divmod(Tail(a), b)
             part == nat_strip(<<a[1]>> \o above[2])
             digit == nat_div_digit(part, b, 0, Base)
         IN <<nat_strip(<<digit>> \o above[1]),
              nat_strip(nat_sub(part, nat_strip(nat_mul_digit(b, digit, 0)), 0))>>

\* x + y, x - y, x * y, x // y (y # 0) and x < y of ints.  // rounds the
\* quotient down: when the signs differ and the magnitudes leave a remainder
\* it is one below the negated quotient of the magnitudes.
int_add(x, y) ==
    IF x.neg = y.neg THEN signed(x.neg, nat_add(x.digits, y.digits, 0))
    ELSE IF nat_less(x.digits, y.digits)
         THEN signed(y.neg, nat_strip(nat_sub(y.digits, x.digits, 0)))
    ELSE signed(x.neg, nat_strip(nat_sub(x.digits, y.digits, 0)))

int_sub(x, y) == int_add(x, signed(~y.neg, y.digits))

int_mul(x, y) == signed(x.neg # y.neg, nat_mul(x.digits, y.digits))

int_floordiv(x, y) ==
    LET divmod == nat_divmod(x.digits, y.digits) IN
    IF x.neg = y.neg THEN signed(FALSE, divmod[1])
    ELSE IF divmod[2] = << >> THEN signed(TRUE, divmod[1])
    ELSE signed(TRUE, nat_add(divmod[1], <<1>>, 0))

int_less(x, y) ==
    IF x.neg # y.neg THEN x.neg
    ELSE IF x.neg THEN nat_less(y.digits, x.digits)
    ELSE nat_less(x.digits, y.digits)

\* The number a text of at most four decimal digits stands for.
RECURSIVE dec_value(_)
dec_value(text) ==
    IF text = << >> THEN 0
    ELSE 10 * dec_value(SubSeq(text, 1, Len(text) - 1)) + (text[Len(text)] - 48)

\* The digits in base Base of a text of decimal digits: one for every four
\* characters, from the right.
RECURSIVE nat_parse(_)
nat_parse(text) ==
    IF text = << >> THEN << >>
    ELSE LET low == SubSeq(text, IF Len(text) > 4 THEN Len(text) - 3 ELSE 1, Len(text))
         IN <<dec_value(low)>> \o nat_parse(SubSeq(text, 1, Len(text) - Len(low)))

\* int(text) of a decimal numeral: decimal digits, after a sign or no sign.
int(text) ==
    IF text[1] = 45 THEN signed(TRUE, nat_strip(nat_parse(Tail(text))))
    ELSE IF text[1] = 43 THEN signed(FALSE, nat_strip(nat_parse(Tail(text))))
    ELSE signed(FALSE, nat_strip(nat_parse(text)))

None == [t |-> "NoneType", v |-> 0]
PyInt(n) == [t |-> "int", v |-> long(n)]
PyBool(b) == [t |-> "bool", v |-> b]
PyStr(s) == [t |-> "str", v |-> s]

\* The empty str, '' .
EmptyStr == PyStr(<<>>)

\* A dict is a function from its keys; {} is the function with no key.
EmptyDict == << >>

\* d with d[key] = value executed.
DictSet(d, key, value) ==
    [k \in (DOMAIN d) \cup {key} |-> IF k = key THEN value ELSE d[k]]

\* A name bound to a dict or to None (a frame that is not allocated).
NoneFrame == [is_none |-> TRUE, dict |-> EmptyDict]
SomeFrame(d) == [is_none |-> FALSE, dict |-> d]

\* _local_frame is None or refers to an element of _frame_stack (the code
\* assigns it nothing else, lines 811, 912, 921, 923); the reference is the
\* element's index.
NoneRef == [is_none |-> TRUE, at |-> 0]
RefTo(i) == [is_none |-> FALSE, at |-> i]

\* sys.exit has not been called / has been called with code.
NoExit == << >>
ExitWith(code) == <<code>>

---------------------------------------------------------------------------
\* Arguments (lines 159-239): type is the XML type attribute, which picks
\* the Argument class (ARGUMENT_TYPE_MAP, lines 971-979).  An int literal is
\* made from the text of its element, the code points of a decimal numeral
\* (<<49>> is "1", <<45, 55>> is "-7").

IntegerArgument(text) ==
    [type |-> "int", value |-> [t |-> "int", v |-> int(text)], frame |-> "", name |-> ""]
BooleanArgument(b) == [type |-> "bool", value |-> PyBool(b), frame |-> "", name |-> ""]
StringArgument(s) == [type |-> "string", value |-> PyStr(s), frame |-> "", name |-> ""]
NilArgument == [type |-> "nil", value |-> None, frame |-> "", name |-> ""]
LabelArgument(l) == [type |-> "label", value |-> PyStr(l), frame |-> "", name |-> ""]
VariableArgument(f, n) == [type |-> "var", value |-> None, frame |-> f, name |-> n]
TypeArgument(s) == [type |-> "type", value |-> PyStr(s), frame |-> "", name |-> ""]

Instruction(op, args) == [opcode |-> op, arguments |-> args]

---------------------------------------------------------------------------
\* The Memory singleton as one record.

Mem ==
    [stack |-> stack, call_stack |-> call_stack, frame_stack |-> frame_stack,
     global_frame |-> global_frame, local_frame |-> local_frame,
     temporary_frame |-> temporary_frame, program_counter |-> program_counter,
     labels |-> labels, stdout |-> stdout, stdin |-> stdin, exit_code |-> exit_code]

\* The next state is m.
Becomes(m) ==
    /\ stack' = m.stack
    /\ call_stack' = m.call_stack
    /\ frame_stack' = m.frame_stack
    /\ global_frame' = m.global_frame
    /\ local_frame' = m.local_frame
    /\ temporary_frame' = m.temporary_frame
    /\ program_counter' = m.program_counter
    /\ labels' = m.labels
    /\ stdout' = m.stdout
    /\ stdin' = m.stdin
    /\ exit_code' = m.exit_code
    /\ UNCHANGED program

\* The state is m.
Is(m) ==
    /\ stack = m.stack
    /\ call_stack = m.call_stack
    /\ frame_stack = m.frame_stack
    /\ global_frame = m.global_frame
    /\ local_frame = m.local_frame
    /\ temporary_frame = m.temporary_frame
    /\ program_counter = m.program_counter
    /\ labels = m.labels
    /\ stdout = m.stdout
    /\ stdin = m.stdin
    /\ exit_code = m.exit_code

\* Memory.__init__ (lines 806-814), nothing printed, no line of input, the
\* process running.
InitialMemory ==
    [stack |-> << >>, call_stack |-> << >>, frame_stack |-> << >>,
     global_frame |-> EmptyDict, local_frame |-> NoneRef,
     temporary_frame |-> NoneFrame, program_counter |-> 0,
     labels |-> EmptyDict, stdout |-> << >>, stdin |-> << >>, exit_code |-> NoExit]

\* sys.exit(code) / exit(code).
sys_exit(m, code) == [m EXCEPT !.exit_code = ExitWith(code)]

\* Memory.get_frame (lines 795-804, 846-847): the dict of the frame, or None.
get_frame(m, frame_name) ==
    CASE frame_name = "GF" -> SomeFrame(m.global_frame)
      [] frame_name = "LF" ->
            IF m.local_frame.is_none THEN NoneFrame
            ELSE SomeFrame(m.frame_stack[m.local_frame.at])
      [] frame_name = "TF" -> m.temporary_frame

\* frame[variable_name] = value on the dict get_frame returned: the dict is
\* the object the global frame, the temporary frame or the frame-stack
\* element holds.
frame_setitem(m, frame_name, variable_name, value) ==
    CASE frame_name = "GF" ->
            [m EXCEPT !.global_frame = DictSet(@, variable_name, value)]
      [] frame_name = "LF" ->
            [m EXCEPT !.frame_stack[m.local_frame.at] = DictSet(@, variable_name, value)]
      [] frame_name = "TF" ->
            [m EXCEPT !.temporary_frame = SomeFrame(DictSet(@.dict, variable_name, value))]

\* Memory.increment_program_counter leaving the program counter as it is.
increment_program_counter_none(m) == m

\* Memory.increment_program_counter (lines 816-817).
increment_program_counter(m) == [m EXCEPT !.program_counter = @ + 1]

\* Memory.set_program_counter (lines 822-823).
set_program_counter(m, value) == [m EXCEPT !.program_counter = value]

\* Memory.create_variable (lines 854-861).
create_variable(m, frame_name, variable_name) ==
    LET frame == get_frame(m, frame_name) IN
    IF frame.is_none THEN sys_exit(m, 1)    \* TypeError: `in` on None
    ELSE IF variable_name \in DOMAIN frame.dict
    THEN sys_exit(m, SEMANTIC_ERROR_CODE)
    ELSE frame_setitem(m, frame_name, variable_name, None)

\* Memory.update_variable without lines 875-877: a name that is not in the
\* frame is bound by the assignment.
update_variable_create(m, frame_name, variable_name, value) ==
    LET frame == get_frame(m, frame_name) IN
    IF frame.is_none THEN sys_exit(m, 1)
    ELSE frame_setitem(m, frame_name, variable_name, value)

\* Memory.update_variable (lines 872-879).
update_variable(m, frame_name, variable_name, value) ==
    LET frame == get_frame(m, frame_name) IN
    IF frame.is_none THEN sys_exit(m, 1)    \* TypeError: `in` on None
    ELSE IF variable_name \notin DOMAIN frame.dict
    THEN sys_exit(m, UNDEFINED_VARIABLE_ERROR_CODE)
    ELSE frame_setitem(m, frame_name, variable_name, value)

\* Memory.create_label (lines 881-886).
create_label(m, label_name, label_order) ==
    IF label_name \in DOMAIN m.labels
    THEN sys_exit(m, SEMANTIC_ERROR_CODE)
    ELSE [m EXCEPT !.labels = DictSet(@, label_name, label_order)]

\* Memory.get_label (lines 888-893): the exit code when the label is not
\* defined, and the stored order otherwise.
get_label(m, label_name) ==
    IF label_name \notin DOMAIN m.labels
    THEN [exit |-> ExitWith(SEMANTIC_ERROR_CODE), order |-> 0]
    ELSE [exit |-> NoExit, order |-> m.labels[label_name]]

\* Memory.push_call_stack / pop_call_stack (lines 904-908).
push_call_stack(m, value) == [m EXCEPT !.call_stack = Append(@, value)]
pop_call_stack(m) == [m EXCEPT !.call_stack = SubSeq(@, 1, Len(@) - 1)]

\* Memory.push_frame_stack (lines 910-912).
push_frame_stack(m, value) ==
    [m EXCEPT !.frame_stack = Append(@, value),
              !.local_frame = RefTo(Len(m.frame_stack) + 1)]

\* pop_frame_stack without lines 920-923: the local frame is left referring
\* to where the popped frame was.
pop_frame_stack_stale(m) ==
    [m EXCEPT !.frame_stack = SubSeq(@, 1, Len(@) - 1)]

\* Memory.pop_frame_stack (lines 917-925): the memory after the pop; the
\* value it returns is the last element of the stack before it.
pop_frame_stack(m) ==
    LET rest == SubSeq(m.frame_stack, 1, Len(m.frame_stack) - 1) IN
    [m EXCEPT !.frame_stack = rest,
              !.local_frame = IF Len(rest) = 0 THEN NoneRef ELSE RefTo(Len(rest))]

---------------------------------------------------------------------------
\* Strings the interpreter produces, as code points.

STR_true == <<116, 114, 117, 101>>
STR_false == <<102, 97, 108, 115, 101>>
STR_None == <<78, 111, 110, 101>>
STR_int == <<105, 110, 116>>
STR_bool == <<98, 111, 111, 108>>
STR_string == <<115, 116, 114, 105, 110, 103>>
STR_nil == <<110, 105, 108>>

\* "0" .. "9".
IsDigit(c) == c >= 48 /\ c <= 57

\* str(n) of a natural number below Base, in at least width characters.
RECURSIVE str_digit(_, _)
str_digit(n, width) ==
    IF n < 10 /\ width <= 1 THEN <<48 + n>>
    ELSE str_digit(n \div 10, width - 1) \o <<48 + (n % 10)>>

\* The decimal digits of a magnitude that is not 0: the most significant
\* digit as it is, each one under it in the four characters Base gives it.
RECURSIVE str_nat(_)
str_nat(digits) ==
    IF Len(digits) = 1 THEN str_digit(digits[1], 1)
    ELSE str_nat(Tail(digits)) \o str_digit(digits[1], 4)

\* str(n) of an int.
str_int(n) ==
    IF n.digits = << >> THEN <<48>>
    ELSE (IF n.neg THEN <<45>> ELSE << >>) \o str_nat(n.digits)

\* Helpers.replace_special_chars (lines 39-51): every \ddd, left to right,
\* becomes chr(int(ddd)).
RECURSIVE replace_special_chars(_)
replace_special_chars(input_str) ==
    IF input_str = << >> THEN << >>
    ELSE IF /\ Len(input_str) >= 4
            /\ input_str[1] = 92
            /\ IsDigit(input_str[2]) /\ IsDigit(input_str[3]) /\ IsDigit(input_str[4])
         THEN <<100 * (input_str[2] - 48) + 10 * (input_str[3] - 48) + (input_str[4] - 48)>>
              \o replace_special_chars(SubSeq(input_str, 5, Len(input_str)))
         ELSE <<input_str[1]>> \o replace_special_chars(Tail(input_str))

\* str.lower() of a text of ASCII characters.
lower(text) ==
    [i \in 1..Len(text) |-> IF text[i] >= 65 /\ text[i] <= 90 THEN text[i] + 32 ELSE text[i]]

\* Space, \t, \n, \v, \f and \r: what int() strips from both ends of an
\* ASCII text.
IsSpace(c) == c \in {32, 9, 10, 11, 12, 13}

RECURSIVE strip(_)
strip(text) ==
    IF text = << >> THEN << >>
    ELSE IF IsSpace(text[1]) THEN strip(Tail(text))
    ELSE IF IsSpace(text[Len(text)]) THEN strip(SubSeq(text, 1, Len(text) - 1))
    ELSE text

\* The text without its underscores.
without_underscores(text) == SelectSeq(text, LAMBDA c : c # 95)

\* int(value) of an ASCII str (line 588): [error, value], error when int()
\* raises ValueError.  int() takes, between white space, an optional sign and
\* decimal digits that single underscores may separate.
int_of_str(value) ==
    LET text == strip(value)
        signed_ == text # << >> /\ text[1] \in {43, 45}
        digits == IF signed_ THEN Tail(text) ELSE text
        well_formed ==
            /\ digits # << >>
            /\ IsDigit(digits[1]) /\ IsDigit(digits[Len(digits)])
            /\ \A i \in 1..Len(digits) :
                    \/ IsDigit(digits[i])
                    \/ digits[i] = 95 /\ IsDigit(digits[i - 1]) /\ IsDigit(digits[i + 1])
    IN
    IF well_formed
    THEN [error |-> FALSE,
          value |-> [t |-> "int",
                     v |-> int((IF signed_ THEN <<text[1]>> ELSE << >>)
                               \o without_underscores(digits))]]
    ELSE [error |-> TRUE, value |-> None]

\* Helpers.process_output (lines 53-67).  type(arg) is None is never true, so
\* None takes the last branch, str(None).
process_output(arg) ==
    CASE arg.t = "bool" -> IF arg.v THEN STR_true ELSE STR_false
      [] arg.t = "str" -> replace_special_chars(arg.v)
      [] arg.t = "int" -> str_int(arg.v)
      [] arg.t = "NoneType" -> STR_None

---------------------------------------------------------------------------
\* Argument.get_value: [exit, value], exit the code of a sys.exit it ran into.

Returns(value) == [exit |-> NoExit, value |-> value]
Exits(code) == [exit |-> ExitWith(code), value |-> None]

\* VariableArgument.get_value (lines 228-239).
variable_get_value(m, arg) ==
    LET memory == get_frame(m, arg.frame) IN
    IF memory.is_none THEN Exits(NON_EXISTING_FRAME_ERROR_CODE)
    ELSE IF arg.name \notin DOMAIN memory.dict THEN Exits(UNDEFINED_VARIABLE_ERROR_CODE)
    ELSE IF memory.dict[arg.name] # None THEN Returns(memory.dict[arg.name])
    ELSE Returns(EmptyStr)

\* get_value of any argument (lines 183-239): a literal's value is the one
\* its class decodes from the element text.
get_value(m, arg) ==
    IF arg.type = "var" THEN variable_get_value(m, arg) ELSE Returns(arg.value)

\* value_check (lines 242-271): the code it exits with, or NoExit.
value_check(value, check) ==
    IF VALUE_TYPE_INT_CHECK \subseteq check /\ value.t # "int"
    THEN ExitWith(WRONG_OPERAND_TYPE_ERROR_CODE)
    ELSE IF VALUE_TYPE_BOOL_CHECK \subseteq check /\ value.t # "bool"
    THEN ExitWith(WRONG_OPERAND_TYPE_ERROR_CODE)
    ELSE IF VALUE_TYPE_STRING_CHECK \subseteq check /\ value.t # "str"
    THEN ExitWith(WRONG_OPERAND_TYPE_ERROR_CODE)
    ELSE IF VALUE_TYPE_NIL_CHECK \subseteq check /\ value = None
    THEN ExitWith(WRONG_OPERAND_TYPE_ERROR_CODE)
    ELSE IF VALUE_TYPE_NOT_NIL_CHECK \subseteq check /\ value = None
    THEN ExitWith(MISSING_VALUE_ERROR_CODE)
    ELSE NoExit

\* values_check (lines 274-287).
values_check(value1, value2, check) ==
    IF VALUE_TYPE_SAME_CHECK \subseteq check /\ value1.t # value2.t
    THEN ExitWith(WRONG_OPERAND_TYPE_ERROR_CODE)
    ELSE IF value_check(value1, check) # NoExit THEN value_check(value1, check)
    ELSE value_check(value2, check)

\* variable_check without its last check (lines 309-312), the one of the frame.
variable_check_no_frame(m, variable, check) ==
    LET got == variable_get_value(m, variable) IN
    IF VARIABLE_NULL_CHECK \subseteq check /\ got.exit # NoExit
    THEN got.exit
    ELSE IF VARIABLE_NULL_CHECK \subseteq check /\ got.value = EmptyStr
    THEN ExitWith(MISSING_VALUE_ERROR_CODE)
    ELSE NoExit

\* variable_check (lines 290-314).  With VARIABLE_DEFINED_CHECK and a frame
\* that is None, `in` raises TypeError: the process ends with Python's
\* status 1.
variable_check(m, variable, check) ==
    LET memory == get_frame(m, variable.frame)
        got == variable_get_value(m, variable)
    IN
    IF VARIABLE_DEFINED_CHECK \subseteq check /\ memory.is_none
    THEN ExitWith(1)
    ELSE IF VARIABLE_DEFINED_CHECK \subseteq check /\ variable.name \notin DOMAIN memory.dict
    THEN ExitWith(UNDEFINED_VARIABLE_ERROR_CODE)
    ELSE IF VARIABLE_NULL_CHECK \subseteq check /\ got.exit # NoExit
    THEN got.exit
    ELSE IF VARIABLE_NULL_CHECK \subseteq check /\ got.value = EmptyStr
    THEN ExitWith(MISSING_VALUE_ERROR_CODE)
    ELSE IF VARIABLE_CORRECT_FRAME_CHECK \subseteq check /\ memory.is_none
    THEN ExitWith(NON_EXISTING_FRAME_ERROR_CODE)
    ELSE NoExit

\* Helpers.variable_args_check (lines 69-91) with the checks given.
variable_args_check3(m, args, check1, check2, check3) ==
    LET c1 == IF args[1].type = "var" THEN variable_check(m, args[1], check1) ELSE NoExit
        c2 == IF Len(args) > 1 /\ args[2].type = "var"
              THEN variable_check(m, args[2], check2) ELSE NoExit
        c3 == IF Len(args) > 2 /\ args[3].type = "var"
              THEN variable_check(m, args[3], check3) ELSE NoExit
    IN IF c1 # NoExit THEN c1 ELSE IF c2 # NoExit THEN c2 ELSE c3

\* Helpers.variable_args_check with check2 and check3 defaulted (lines 72-73).
variable_args_check1(m, args, check1) ==
    variable_args_check3(m, args, check1,
                         VARIABLE_NULL_CHECK \cup VARIABLE_CORRECT_FRAME_CHECK,
                         VARIABLE_NULL_CHECK \cup VARIABLE_CORRECT_FRAME_CHECK)

\* Helpers.variable_args_check with every check defaulted (lines 71-73).
variable_args_check(m, args) ==
    variable_args_check1(m, args, VARIABLE_CORRECT_FRAME_CHECK)

\* Helpers.math_args_check (lines 93-109): the code it exits with, or NoExit.
math_args_check(m, args) ==
    LET variables == variable_args_check(m, args)
        value1 == get_value(m, args[2])
        value2 == get_value(m, args[3])
        check == VALUE_TYPE_INT_CHECK \cup VALUE_TYPE_NOT_NIL_CHECK
    IN
    IF variables # NoExit THEN variables
    ELSE IF value1.exit # NoExit THEN value1.exit
    ELSE IF value2.exit # NoExit THEN value2.exit
    ELSE IF value_check(value1.value, check) # NoExit THEN value_check(value1.value, check)
    ELSE value_check(value2.value, check)

\* Helpers.relational_args_check (lines 111-127).
relational_args_check(m, args) ==
    LET variables == variable_args_check(m, args)
        value1 == get_value(m, args[2])
        value2 == get_value(m, args[3])
        check == VALUE_TYPE_NIL_CHECK \cup VALUE_TYPE_SAME_CHECK
    IN
    IF variables # NoExit THEN variables
    ELSE IF value1.exit # NoExit THEN value1.exit
    ELSE IF value2.exit # NoExit THEN value2.exit
    ELSE values_check(value1.value, value2.value, check)

\* a < b of strs: the first code point that differs decides, and a str is
\* above its proper prefixes.
RECURSIVE str_less(_, _)
str_less(a, b) ==
    IF b = << >> THEN FALSE
    ELSE IF a = << >> THEN TRUE
    ELSE IF a[1] # b[1] THEN a[1] < b[1]
    ELSE str_less(Tail(a), Tail(b))

\* value1 < value2 of two values of one type, int, bool or str.
less(value1, value2) ==
    CASE value1.t = "int" -> int_less(value1.v, value2.v)
      [] value1.t = "bool" -> ~value1.v /\ value2.v
      [] value1.t = "str" -> str_less(value1.v, value2.v)

\* The memory after sys.exit with the code in exit (exit # NoExit).
exited(m, exit) == [m EXCEPT !.exit_code = exit]

---------------------------------------------------------------------------
\* Instruction.execute of each opcode: the memory after execute, from the
\* memory m in which processXML has already incremented the program counter.
\* arguments[1] is the code's arguments[0].

\* MoveInstruction.execute (lines 342-349).
MoveInstruction(m, arguments) ==
    LET check == variable_args_check(m, arguments)
        variable == arguments[1]
        value == get_value(m, arguments[2])
    IN
    IF check # NoExit THEN exited(m, check)
    ELSE IF value.exit # NoExit THEN exited(m, value.exit)
    ELSE update_variable(m, variable.frame, variable.name, value.value)

\* CreateFrameInstruction.execute making a frame only when there is none.
CreateFrameInstruction_keep(m, arguments) ==
    IF m.temporary_frame.is_none THEN [m EXCEPT !.temporary_frame = SomeFrame(EmptyDict)]
    ELSE m

\* CreateFrameInstruction.execute emptying the operand stack too, as
\* Memory.reset does.
CreateFrameInstruction_reset(m, arguments) ==
    [m EXCEPT !.temporary_frame = SomeFrame(EmptyDict), !.stack = << >>]

\* CreateFrameInstruction.execute (lines 352-354).
CreateFrameInstruction(m, arguments) ==
    [m EXCEPT !.temporary_frame = SomeFrame(EmptyDict)]

\* PushFrameInstruction.execute (lines 357-364).
PushFrameInstruction(m, arguments) ==
    IF m.temporary_frame.is_none THEN sys_exit(m, NON_EXISTING_FRAME_ERROR_CODE)
    ELSE [push_frame_stack(m, m.temporary_frame.dict) EXCEPT !.temporary_frame = NoneFrame]

\* PopFrameInstruction.execute taking the frame from the bottom of the frame
\* stack instead of the top.
PopFrameInstruction_bottom(m, arguments) ==
    IF Len(m.frame_stack) = 0 THEN sys_exit(m, NON_EXISTING_FRAME_ERROR_CODE)
    ELSE [pop_frame_stack(m) EXCEPT !.temporary_frame = SomeFrame(m.frame_stack[1])]

\* PopFrameInstruction.execute (lines 367-373).
PopFrameInstruction(m, arguments) ==
    IF Len(m.frame_stack) = 0 THEN sys_exit(m, NON_EXISTING_FRAME_ERROR_CODE)
    ELSE [pop_frame_stack(m) EXCEPT
            !.temporary_frame = SomeFrame(m.frame_stack[Len(m.frame_stack)])]

\* DefVarInstruction.execute (lines 376-381).
DefVarInstruction(m, arguments) ==
    LET check == variable_args_check(m, arguments)
        variable == arguments[1]
    IN
    IF check # NoExit THEN exited(m, check)
    ELSE create_variable(m, variable.frame, variable.name)

\* CallInstruction.execute (lines 384-394).  get_label itself exits with 52
\* on a label that is not defined, so `order is None` is never true.
CallInstruction(m, arguments) ==
    LET label == arguments[1].value.v
        order == get_label(m, label)
    IN
    IF order.exit # NoExit THEN exited(m, order.exit)
    ELSE set_program_counter(push_call_stack(m, m.program_counter), order.order)

\* ReturnInstruction.execute taking the return address from the bottom of the
\* call stack instead of the top.
ReturnInstruction_first(m, arguments) ==
    IF Len(m.call_stack) = 0 THEN sys_exit(m, MISSING_VALUE_ERROR_CODE)
    ELSE set_program_counter([m EXCEPT !.call_stack = Tail(@)], m.call_stack[1])

\* ReturnInstruction.execute (lines 397-405).
ReturnInstruction(m, arguments) ==
    IF Len(m.call_stack) = 0 THEN sys_exit(m, MISSING_VALUE_ERROR_CODE)
    ELSE set_program_counter(pop_call_stack(m), m.call_stack[Len(m.call_stack)])

\* PushSInstruction.execute (lines 408-413).
PushSInstruction(m, arguments) ==
    LET check == variable_args_check1(m, arguments,
                    VARIABLE_CORRECT_FRAME_CHECK \cup VARIABLE_NULL_CHECK)
        value == get_value(m, arguments[1])
    IN
    IF check # NoExit THEN exited(m, check)
    ELSE IF value.exit # NoExit THEN exited(m, value.exit)
    ELSE [m EXCEPT !.stack = Append(@, value.value)]

\* PopSInstruction.execute taking the value from the bottom of the operand
\* stack instead of the top.
PopSInstruction_first(m, arguments) ==
    LET check == variable_args_check(m, arguments)
        variable == arguments[1]
    IN
    IF check # NoExit THEN exited(m, check)
    ELSE IF Len(m.stack) = 0 THEN sys_exit(m, MISSING_VALUE_ERROR_CODE)
    ELSE update_variable([m EXCEPT !.stack = Tail(@)], variable.frame, variable.name,
                         m.stack[1])

\* PopSInstruction.execute (lines 416-429).
PopSInstruction(m, arguments) ==
    LET check == variable_args_check(m, arguments)
        variable == arguments[1]
        popped == [m EXCEPT !.stack = SubSeq(@, 1, Len(@) - 1)]
    IN
    IF check # NoExit THEN exited(m, check)
    ELSE IF Len(m.stack) = 0 THEN sys_exit(m, MISSING_VALUE_ERROR_CODE)
    ELSE update_variable(popped, variable.frame, variable.name, m.stack[Len(m.stack)])

\* ReadInstruction.execute (lines 581-596).  input() at the end of the input
\* raises EOFError and int() of a line that is no numeral ValueError; nothing
\* catches them, and the process ends with Python's status 1.
ReadInstruction(m, arguments) ==
    LET check == variable_args_check(m, arguments)
        variable == arguments[1]
        var_type == get_value(m, arguments[2])
        value == Head(m.stdin)
        read == [m EXCEPT !.stdin = Tail(@)]
        number == int_of_str(value)
    IN
    IF check # NoExit THEN exited(m, check)
    ELSE IF var_type.exit # NoExit THEN exited(m, var_type.exit)
    ELSE IF m.stdin = << >> THEN sys_exit(m, 1)
    ELSE IF var_type.value = PyStr(STR_int)
         THEN IF number.error THEN sys_exit(read, 1)
              ELSE update_variable(read, variable.frame, variable.name, number.value)
    ELSE IF var_type.value = PyStr(STR_bool)
         THEN update_variable(read, variable.frame, variable.name,
                              PyBool(lower(value) = STR_true))
    ELSE update_variable(read, variable.frame, variable.name, PyStr(value))

\* index < 0 or index >= len(string) (lines 574, 644, 667).
out_of_range(index, string) ==
    int_less(index.v, long(0)) \/ ~int_less(index.v, long(Len(string.v)))

\* Stri2IntInstruction.execute (lines 563-578).
Stri2IntInstruction(m, arguments) ==
    LET check == variable_args_check(m, arguments)
        variable == arguments[1]
        string == get_value(m, arguments[2])
        index == get_value(m, arguments[3])
        is_str == value_check(string.value, VALUE_TYPE_STRING_CHECK)
        is_int == value_check(index.value, VALUE_TYPE_INT_CHECK)
    IN
    IF check # NoExit THEN exited(m, check)
    ELSE IF string.exit # NoExit THEN exited(m, string.exit)
    ELSE IF index.exit # NoExit THEN exited(m, index.exit)
    ELSE IF is_str # NoExit THEN exited(m, is_str)
    ELSE IF is_int # NoExit THEN exited(m, is_int)
    ELSE IF out_of_range(index.value, string.value)
         THEN sys_exit(m, STRING_OPERATION_ERROR_CODE)
    ELSE update_variable(m, variable.frame, variable.name,
                         PyInt(string.value.v[int_value(index.value.v) + 1]))

\* GetCharInstruction.execute (lines 633-649).
GetCharInstruction(m, arguments) ==
    LET check == variable_args_check(m, arguments)
        variable == arguments[1]
        string == get_value(m, arguments[2])
        index == get_value(m, arguments[3])
        is_str == value_check(string.value, VALUE_TYPE_STRING_CHECK)
        is_int == value_check(index.value, VALUE_TYPE_INT_CHECK)
        not_nil == values_check(string.value, index.value, VALUE_TYPE_NIL_CHECK)
    IN
    IF check # NoExit THEN exited(m, check)
    ELSE IF string.exit # NoExit THEN exited(m, string.exit)
    ELSE IF index.exit # NoExit THEN exited(m, index.exit)
    ELSE IF is_str # NoExit THEN exited(m, is_str)
    ELSE IF is_int # NoExit THEN exited(m, is_int)
    ELSE IF not_nil # NoExit THEN exited(m, not_nil)
    ELSE IF out_of_range(index.value, string.value)
         THEN sys_exit(m, STRING_OPERATION_ERROR_CODE)
    ELSE update_variable(m, variable.frame, variable.name,
                         PyStr(<<string.value.v[int_value(index.value.v) + 1]>>))

\* SetCharInstruction.execute (lines 652-679).
SetCharInstruction(m, arguments) ==
    LET check == variable_args_check(m, arguments)
        variable == arguments[1]
        index == get_value(m, arguments[2])
        replace_string == get_value(m, arguments[3])
        string == variable_get_value(m, variable)
        at == int_value(index.value.v)
    IN
    IF check # NoExit THEN exited(m, check)
    ELSE IF index.exit # NoExit THEN exited(m, index.exit)
    ELSE IF replace_string.exit # NoExit THEN exited(m, replace_string.exit)
    ELSE IF string.exit # NoExit THEN exited(m, string.exit)
    ELSE IF string.value = EmptyStr THEN sys_exit(m, WRONG_OPERAND_TYPE_ERROR_CODE)
    ELSE IF string.value.t # "str" \/ index.value.t # "int" \/ replace_string.value.t # "str"
         THEN sys_exit(m, WRONG_OPERAND_TYPE_ERROR_CODE)
    ELSE IF out_of_range(index.value, string.value)
         THEN sys_exit(m, STRING_OPERATION_ERROR_CODE)
    ELSE IF Len(replace_string.value.v) < 1
         THEN sys_exit(m, STRING_OPERATION_ERROR_CODE)
    ELSE update_variable(m, variable.frame, variable.name,
                         PyStr(SubSeq(string.value.v, 1, at)
                               \o <<replace_string.value.v[1]>>
                               \o SubSeq(string.value.v, at + 2, Len(string.value.v))))

\* WriteInstruction.execute (lines 599-602), from the i-th argument on.
RECURSIVE write_arguments(_, _, _)
write_arguments(m, arguments, i) ==
    IF i > Len(arguments) THEN m
    ELSE LET value == get_value(m, arguments[i]) IN
         IF value.exit # NoExit THEN exited(m, value.exit)
         ELSE write_arguments(
                [m EXCEPT !.stdout = Append(@, process_output(value.value))],
                arguments, i + 1)

WriteInstruction(m, arguments) == write_arguments(m, arguments, 1)

\* TypeInstruction.execute (lines 682-699).
TypeInstruction(m, arguments) ==
    LET check == variable_args_check(m, arguments)
        variable == arguments[1]
        value == get_value(m, arguments[2])
        type_str == CASE value.value.t = "bool" -> STR_bool
                      [] value.value.t = "int" -> STR_int
                      [] value.value.t = "str" -> STR_string
                      [] value.value.t = "NoneType" -> STR_nil
    IN
    IF check # NoExit THEN exited(m, check)
    ELSE IF value.exit # NoExit THEN exited(m, value.exit)
    ELSE update_variable(m, variable.frame, variable.name, PyStr(type_str))

\* LabelInstruction.execute storing the order after the program counter.
LabelInstruction_next(m, arguments) ==
    create_label(m, arguments[1].value.v, m.program_counter + 1)

\* LabelInstruction.execute (lines 702-706).
LabelInstruction(m, arguments) ==
    create_label(m, arguments[1].value.v, m.program_counter)

\* JumpInstruction.execute (lines 709-714).
JumpInstruction(m, arguments) ==
    LET check == variable_args_check(m, arguments)
        order == get_label(m, arguments[1].value.v)
    IN
    IF check # NoExit THEN exited(m, check)
    ELSE IF order.exit # NoExit THEN exited(m, order.exit)
    ELSE set_program_counter(m, order.order)

\* JumpIfEqInstruction.execute calling get_label before it compares the
\* values, as JumpInstruction.execute does before it jumps.
JumpIfEqInstruction_eager(m, arguments) ==
    LET check == variable_args_check(m, arguments)
        value1 == get_value(m, arguments[2])
        value2 == get_value(m, arguments[3])
        same == values_check(value1.value, value2.value, VALUE_TYPE_SAME_CHECK)
        order == get_label(m, arguments[1].value.v)
    IN
    IF check # NoExit THEN exited(m, check)
    ELSE IF value1.exit # NoExit THEN exited(m, value1.exit)
    ELSE IF value2.exit # NoExit THEN exited(m, value2.exit)
    ELSE IF same # NoExit THEN exited(m, same)
    ELSE IF order.exit # NoExit THEN exited(m, order.exit)
    ELSE IF value1.value # value2.value THEN m
    ELSE set_program_counter(m, order.order)

\* JumpIfEqInstruction.execute (lines 717-728).
JumpIfEqInstruction(m, arguments) ==
    LET check == variable_args_check(m, arguments)
        value1 == get_value(m, arguments[2])
        value2 == get_value(m, arguments[3])
        same == values_check(value1.value, value2.value, VALUE_TYPE_SAME_CHECK)
        order == get_label(m, arguments[1].value.v)
    IN
    IF check # NoExit THEN exited(m, check)
    ELSE IF value1.exit # NoExit THEN exited(m, value1.exit)
    ELSE IF value2.exit # NoExit THEN exited(m, value2.exit)
    ELSE IF same # NoExit THEN exited(m, same)
    ELSE IF value1.value # value2.value THEN m
    ELSE IF order.exit # NoExit THEN exited(m, order.exit)
    ELSE set_program_counter(m, order.order)

\* JumpIfNeqInstruction.execute (lines 731-742).
JumpIfNeqInstruction(m, arguments) ==
    LET check == variable_args_check(m, arguments)
        value1 == get_value(m, arguments[2])
        value2 == get_value(m, arguments[3])
        same == values_check(value1.value, value2.value, VALUE_TYPE_SAME_CHECK)
        order == get_label(m, arguments[1].value.v)
    IN
    IF check # NoExit THEN exited(m, check)
    ELSE IF value1.exit # NoExit THEN exited(m, value1.exit)
    ELSE IF value2.exit # NoExit THEN exited(m, value2.exit)
    ELSE IF same # NoExit THEN exited(m, same)
    ELSE IF value1.value = value2.value THEN m
    ELSE IF order.exit # NoExit THEN exited(m, order.exit)
    ELSE set_program_counter(m, order.order)

\* ExitInstruction.execute (lines 745-757).
ExitInstruction(m, arguments) ==
    LET check == variable_args_check1(m, arguments,
                    VARIABLE_CORRECT_FRAME_CHECK \cup VARIABLE_NULL_CHECK)
        code == get_value(m, arguments[1])
        is_int == value_check(code.value, VALUE_TYPE_INT_CHECK)
    IN
    IF check # NoExit THEN exited(m, check)
    ELSE IF code.exit # NoExit THEN exited(m, code.exit)
    ELSE IF is_int # NoExit THEN exited(m, is_int)
    ELSE IF int_less(code.value.v, long(0)) \/ int_less(long(49), code.value.v)
         THEN sys_exit(m, WRONG_OPERAND_VALUE_ERROR_CODE)
    ELSE sys_exit(m, int_value(code.value.v))

\* AddInstruction.execute (lines 432-440).
AddInstruction(m, arguments) ==
    LET check == math_args_check(m, arguments)
        variable == arguments[1]
        value1 == get_value(m, arguments[2]).value
        value2 == get_value(m, arguments[3]).value
    IN
    IF check # NoExit THEN exited(m, check)
    ELSE update_variable(m, variable.frame, variable.name,
                         [t |-> "int", v |-> int_add(value1.v, value2.v)])

\* SubInstruction.execute (lines 443-451).
SubInstruction(m, arguments) ==
    LET check == math_args_check(m, arguments)
        variable == arguments[1]
        value1 == get_value(m, arguments[2]).value
        value2 == get_value(m, arguments[3]).value
    IN
    IF check # NoExit THEN exited(m, check)
    ELSE update_variable(m, variable.frame, variable.name,
                         [t |-> "int", v |-> int_sub(value1.v, value2.v)])

\* MulInstruction.execute (lines 454-462).
MulInstruction(m, arguments) ==
    LET check == math_args_check(m, arguments)
        variable == arguments[1]
        value1 == get_value(m, arguments[2]).value
        value2 == get_value(m, arguments[3]).value
    IN
    IF check # NoExit THEN exited(m, check)
    ELSE update_variable(m, variable.frame, variable.name,
                         [t |-> "int", v |-> int_mul(value1.v, value2.v)])

\* IDivInstruction.execute (lines 465-477): value1 // value2 is evaluated
\* first, and its ZeroDivisionError is caught.
IDivInstruction(m, arguments) ==
    LET check == math_args_check(m, arguments)
        variable == arguments[1]
        value1 == get_value(m, arguments[2]).value
        value2 == get_value(m, arguments[3]).value
    IN
    IF check # NoExit THEN exited(m, check)
    ELSE IF value2.v = long(0) THEN sys_exit(m, WRONG_OPERAND_VALUE_ERROR_CODE)
    ELSE update_variable(m, variable.frame, variable.name,
                         [t |-> "int", v |-> int_floordiv(value1.v, value2.v)])

\* LTInstruction.execute (lines 480-488).
LTInstruction(m, arguments) ==
    LET check == relational_args_check(m, arguments)
        variable == arguments[1]
        value1 == get_value(m, arguments[2]).value
        value2 == get_value(m, arguments[3]).value
    IN
    IF check # NoExit THEN exited(m, check)
    ELSE update_variable(m, variable.frame, variable.name, PyBool(less(value1, value2)))

\* GTInstruction.execute (lines 491-499).
GTInstruction(m, arguments) ==
    LET check == relational_args_check(m, arguments)
        variable == arguments[1]
        value1 == get_value(m, arguments[2]).value
        value2 == get_value(m, arguments[3]).value
    IN
    IF check # NoExit THEN exited(m, check)
    ELSE update_variable(m, variable.frame, variable.name, PyBool(less(value2, value1)))

\* EQInstruction.execute (lines 502-510).
EQInstruction(m, arguments) ==
    LET check == relational_args_check(m, arguments)
        variable == arguments[1]
        value1 == get_value(m, arguments[2]).value
        value2 == get_value(m, arguments[3]).value
    IN
    IF check # NoExit THEN exited(m, check)
    ELSE update_variable(m, variable.frame, variable.name, PyBool(value1 = value2))

---------------------------------------------------------------------------
\* The programs and instructions the model runs.

Frames == {"GF", "LF", "TF"}

\* Variable operands: x in every frame, and y in the local frame.
Variables ==
    {VariableArgument(f, "x") : f \in Frames} \cup {VariableArgument("LF", "y")}

\* Literal operands: one of every type, and the empty string.
Literals ==
    {IntegerArgument(<<49>>), BooleanArgument(TRUE), StringArgument(<< >>),
     StringArgument(<<97>>), NilArgument}

Symbols == Variables \cup Literals

\* Instructions of the instruction stream (SpecStream): frames, variables and
\* the operand stack.
StreamInstructions ==
    {Instruction("CREATEFRAME", << >>), Instruction("PUSHFRAME", << >>),
     Instruction("POPFRAME", << >>)}
        \cup {Instruction("DEFVAR", <<v>>) : v \in Variables}
        \cup {Instruction("MOVE", <<v, s>>) : v \in Variables, s \in Symbols}
        \cup {Instruction("PUSHS", <<s>>) : s \in Symbols}
        \cup {Instruction("POPS", <<v>>) : v \in Variables}
        \cup {Instruction("RETURN", << >>)}
        \cup {Instruction("WRITE", <<s>>) : s \in Variables \cup {NilArgument}}
        \cup {Instruction("TYPE", <<VariableArgument("GF", "x"), s>>) :
                s \in {VariableArgument("GF", "x"), IntegerArgument(<<49>>)}}
        \cup {Instruction("EXIT", <<s>>) : s \in Variables \cup {IntegerArgument(<<49>>)}}
        \cup {Instruction("JUMPIFEQ", <<LabelArgument("a"), s, VariableArgument("TF", "x")>>) :
                s \in Symbols}

\* Instructions of the programs fixed in Init (Spec): control flow.
ProgramInstructions ==
    {Instruction("LABEL", <<LabelArgument("a")>>),
     Instruction("LABEL", <<LabelArgument("b")>>),
     Instruction("JUMP", <<LabelArgument("a")>>),
     Instruction("CALL", <<LabelArgument("a")>>),
     Instruction("CALL", <<LabelArgument("b")>>),
     Instruction("RETURN", << >>),
     Instruction("JUMPIFEQ", <<LabelArgument("b"), IntegerArgument(<<49>>), IntegerArgument(<<49>>)>>),
     Instruction("JUMPIFNEQ", <<LabelArgument("b"), IntegerArgument(<<49>>), NilArgument>>),
     Instruction("JUMPIFNEQ", <<LabelArgument("a"), IntegerArgument(<<49>>), IntegerArgument(<<50>>)>>),
     Instruction("JUMPIFEQ", <<LabelArgument("a"), IntegerArgument(<<49>>), IntegerArgument(<<50>>)>>),
     Instruction("WRITE", <<StringArgument(<<97>>)>>),
     Instruction("EXIT", <<IntegerArgument(<<48>>)>>)}

\* Every program of at most MaxProg of these instructions.
Programs == UNION {[1..n -> ProgramInstructions] : n \in 0..MaxProg}

\* What stands for the program when it is not fixed: every fetch then draws
\* its instruction from StreamInstructions, and the program may end anywhere.
AnyProgram == <<Instruction("ANY", << >>)>>

\* Instructions of the stream of frame, stack and jump instructions
\* (SpecStore): the frames, their variables, the operand stack, one label.
StoreInstructions ==
    {Instruction("CREATEFRAME", << >>), Instruction("PUSHFRAME", << >>),
     Instruction("POPFRAME", << >>)}
        \cup {Instruction("DEFVAR", <<VariableArgument(f, "x")>>) : f \in Frames}
        \cup {Instruction("DEFVAR", <<VariableArgument("GF", "y")>>)}
        \cup {Instruction("PUSHS", <<IntegerArgument(<<49>>)>>)}
        \cup {Instruction("POPS", <<VariableArgument(f, "x")>>) : f \in Frames}
        \cup {Instruction(op, <<LabelArgument("a")>>) : op \in {"LABEL", "JUMP", "CALL"}}
        \cup {Instruction("RETURN", << >>)}

\* Instructions of the programs without jumps (SpecStraight), which read
\* GF@x from the input and exit with it.
StraightInstructions ==
    {Instruction("LABEL", <<LabelArgument("a")>>),
     Instruction("DEFVAR", <<VariableArgument("GF", "x")>>),
     Instruction("READ", <<VariableArgument("GF", "x"), TypeArgument(STR_int)>>),
     Instruction("EXIT", <<VariableArgument("GF", "x")>>),
     Instruction("EXIT", <<IntegerArgument(<<48>>)>>)}

\* Every program of at most MaxStraight of these instructions.
StraightPrograms == UNION {[1..n -> StraightInstructions] : n \in 0..MaxStraight}

\* The inputs of these programs: no line, the line "12", the line "abc".
StraightInputs == {<< >>, <<(<<49, 50>>)>>, <<(<<97, 98, 99>>)>>}

\* What stands for a program of StoreInstructions that is not fixed.
AnyStore == <<Instruction("ANYSTORE", << >>)>>

\* The numerals "9223372036854775807" (2^63 - 1) and "-9223372036854775808"
\* (-2^63).
STR_INT64_MAX ==
    <<57, 50, 50, 51, 51, 55, 50, 48, 51, 54, 56, 53, 52, 55, 55, 53, 56, 48, 55>>
STR_INT64_MIN ==
    <<45, 57, 50, 50, 51, 51, 55, 50, 48, 51, 54, 56, 53, 52, 55, 55, 53, 56, 48, 56>>

\* Operands of the arithmetic and relational instructions: the variable GF@x,
\* the int literals -7, 2, 0 and 1, the largest 64-bit int, and a literal of
\* every other type.
Numerals == {<<45, 55>>, <<50>>, <<48>>, <<49>>, STR_INT64_MAX}

Operands ==
    {VariableArgument("GF", "x")}
        \cup {IntegerArgument(text) : text \in Numerals}
        \cup {BooleanArgument(TRUE), StringArgument(<<97>>), NilArgument}

\* The pairs of source operands the arithmetic stream fetches: every pair of
\* GF@x, -7, 2 and 0, and pairs with the other operands.
OperandPairs ==
    LET small == {VariableArgument("GF", "x"), IntegerArgument(<<45, 55>>),
                  IntegerArgument(<<50>>), IntegerArgument(<<48>>)}
    IN (small \X small)
        \cup {<<IntegerArgument(STR_INT64_MAX), IntegerArgument(<<49>>)>>,
              <<IntegerArgument(<<49>>), BooleanArgument(TRUE)>>,
              <<BooleanArgument(TRUE), BooleanArgument(TRUE)>>,
              <<StringArgument(<<97>>), VariableArgument("GF", "x")>>,
              <<NilArgument, IntegerArgument(<<49>>)>>,
              <<NilArgument, NilArgument>>}

\* Instructions of the arithmetic stream (SpecArithmetic): GF@x, and the
\* arithmetic and relational instructions that write it.
ArithmeticInstructions ==
    {Instruction("DEFVAR", <<VariableArgument("GF", "x")>>)}
        \cup {Instruction("MOVE", <<VariableArgument("GF", "x"), s>>) : s \in Literals}
        \cup {Instruction(op, <<VariableArgument("GF", "x"), pair[1], pair[2]>>) :
                op \in {"ADD", "SUB", "MUL", "IDIV", "LT", "GT", "EQ"},
                pair \in OperandPairs}

\* What stands for the program in the arithmetic stream.
AnyArithmetic == <<Instruction("ANY ARITHMETIC", << >>)>>

\* Lines of input: the empty line, "12", "-7", " 1_0 ", "abc", "true",
\* "TRUE" and "x y".
Lines ==
    {<< >>, <<49, 50>>, <<45, 55>>, <<32, 49, 95, 48, 32>>, <<97, 98, 99>>,
     STR_true, <<84, 82, 85, 69>>, <<120, 32, 121>>}

\* The inputs: at most MaxLines of these lines.
Inputs == UNION {[1..n -> Lines] : n \in 0..MaxLines}

\* The index operands -1, 0, 2 and 3, and the replacement operands "" and
\* "zq".
Indexes == {IntegerArgument(text) : text \in {<<45, 49>>, <<48>>, <<50>>, <<51>>}}

Replacements == {StringArgument(<< >>), StringArgument(<<122, 113>>)}

\* Instructions of the input stream (SpecRead): GF@x, READ into it with each
\* type, WRITE of it and of every literal, and GETCHAR, STRI2INT and SETCHAR
\* on what it holds.
ReadInstructions ==
    {Instruction("DEFVAR", <<VariableArgument("GF", "x")>>)}
        \cup {Instruction("READ", <<VariableArgument("GF", "x"), TypeArgument(type)>>) :
                type \in {STR_int, STR_bool, STR_string}}
        \cup {Instruction("MOVE", <<VariableArgument("GF", "x"), NilArgument>>)}
        \cup {Instruction("WRITE", <<s>>) :
                s \in {VariableArgument("GF", "x"), IntegerArgument(<<45, 55>>),
                       BooleanArgument(TRUE), BooleanArgument(FALSE),
                       StringArgument(<<97>>), NilArgument}}
        \cup {Instruction(op, <<VariableArgument("GF", "x"), string, index>>) :
                op \in {"GETCHAR", "STRI2INT"},
                string \in {VariableArgument("GF", "x"), StringArgument(<< >>),
                            StringArgument(<<97, 98>>)},
                index \in Indexes}
        \cup {Instruction("SETCHAR", <<VariableArgument("GF", "x"), index, replace_string>>) :
                index \in Indexes, replace_string \in Replacements}

\* What stands for the program in the input stream.
AnyRead == <<Instruction("ANY READ", << >>)>>

---------------------------------------------------------------------------
\* processXML (lines 1014-1056).

\* The fetch of a loop that sys.exit does not end: children[pc] while
\* pc < len(children).
Fetch_after_exit(opcode) ==
    IF program = AnyProgram
    THEN IF program_counter < MaxSteps
         THEN {ins \in StreamInstructions : ins.opcode = opcode} ELSE {}
    ELSE IF program = AnyArithmetic
    THEN IF program_counter < MaxOps
         THEN {ins \in ArithmeticInstructions : ins.opcode = opcode} ELSE {}
    ELSE IF program = AnyRead
    THEN IF program_counter < MaxReads
         THEN {ins \in ReadInstructions : ins.opcode = opcode} ELSE {}
    ELSE IF program = AnyStore
    THEN IF program_counter < MaxTurns
         THEN {ins \in StoreInstructions : ins.opcode = opcode} ELSE {}
    ELSE IF program_counter < Len(program)
         THEN {ins \in {program[program_counter + 1]} : ins.opcode = opcode} ELSE {}

\* The instructions with this opcode that the loop can fetch now: children[pc]
\* while pc < len(children) and the process runs.
Fetch(opcode) ==
    IF exit_code # NoExit THEN {}
    ELSE IF program = AnyProgram
         THEN IF program_counter < MaxSteps
              THEN {ins \in StreamInstructions : ins.opcode = opcode} ELSE {}
    ELSE IF program = AnyArithmetic
         THEN IF program_counter < MaxOps
              THEN {ins \in ArithmeticInstructions : ins.opcode = opcode} ELSE {}
    ELSE IF program = AnyRead
         THEN IF program_counter < MaxReads
              THEN {ins \in ReadInstructions : ins.opcode = opcode} ELSE {}
    ELSE IF program = AnyStore
         THEN IF program_counter < MaxTurns
              THEN {ins \in StoreInstructions : ins.opcode = opcode} ELSE {}
    ELSE IF program_counter < Len(program)
         THEN {ins \in {program[program_counter + 1]} : ins.opcode = opcode} ELSE {}

\* One turn of the loop on instruction ins (lines 1025-1055): the program
\* counter is incremented, then the class INSTRUCTION_MAP (lines 932-968)
\* gives for the opcode executes.
Execute(m, ins) ==
    LET fetched == increment_program_counter(m)
        arguments == ins.arguments
    IN
    CASE ins.opcode = "MOVE" -> MoveInstruction(fetched, arguments)
      [] ins.opcode = "CREATEFRAME" -> CreateFrameInstruction(fetched, arguments)
      [] ins.opcode = "PUSHFRAME" -> PushFrameInstruction(fetched, arguments)
      [] ins.opcode = "POPFRAME" -> PopFrameInstruction(fetched, arguments)
      [] ins.opcode = "DEFVAR" -> DefVarInstruction(fetched, arguments)
      [] ins.opcode = "CALL" -> CallInstruction(fetched, arguments)
      [] ins.opcode = "RETURN" -> ReturnInstruction(fetched, arguments)
      [] ins.opcode = "PUSHS" -> PushSInstruction(fetched, arguments)
      [] ins.opcode = "POPS" -> PopSInstruction(fetched, arguments)
      [] ins.opcode = "WRITE" -> WriteInstruction(fetched, arguments)
      [] ins.opcode = "TYPE" -> TypeInstruction(fetched, arguments)
      [] ins.opcode = "LABEL" -> LabelInstruction(fetched, arguments)
      [] ins.opcode = "JUMP" -> JumpInstruction(fetched, arguments)
      [] ins.opcode = "JUMPIFEQ" -> JumpIfEqInstruction(fetched, arguments)
      [] ins.opcode = "JUMPIFNEQ" -> JumpIfNeqInstruction(fetched, arguments)
      [] ins.opcode = "EXIT" -> ExitInstruction(fetched, arguments)
      [] ins.opcode = "READ" -> ReadInstruction(fetched, arguments)
      [] ins.opcode = "STRI2INT" -> Stri2IntInstruction(fetched, arguments)
      [] ins.opcode = "GETCHAR" -> GetCharInstruction(fetched, arguments)
      [] ins.opcode = "SETCHAR" -> SetCharInstruction(fetched, arguments)
      [] ins.opcode = "ADD" -> AddInstruction(fetched, arguments)
      [] ins.opcode = "SUB" -> SubInstruction(fetched, arguments)
      [] ins.opcode = "MUL" -> MulInstruction(fetched, arguments)
      [] ins.opcode = "IDIV" -> IDivInstruction(fetched, arguments)
      [] ins.opcode = "LT" -> LTInstruction(fetched, arguments)
      [] ins.opcode = "GT" -> GTInstruction(fetched, arguments)
      [] ins.opcode = "EQ" -> EQInstruction(fetched, arguments)

\* The loop on instructions that follow one another in the document and do
\* not jump: each is executed in turn until the process exits.
RECURSIVE Run(_, _)
Run(m, instructions) ==
    IF instructions = << >> \/ m.exit_code # NoExit THEN m
    ELSE Run(Execute(m, Head(instructions)), Tail(instructions))

\* One action for every opcode: the turn of the loop of processXML (lines
\* 1025-1055) on an instruction of that opcode, which increments the program
\* counter and runs execute of the opcode's class.

Move == \E ins \in Fetch("MOVE") :
        Becomes(MoveInstruction(increment_program_counter(Mem), ins.arguments))

CreateFrame == \E ins \in Fetch("CREATEFRAME") :
        Becomes(CreateFrameInstruction(increment_program_counter(Mem), ins.arguments))

PushFrame ==
    /\ Len(frame_stack) < MaxFrames
    /\ \E ins \in Fetch("PUSHFRAME") :
        Becomes(PushFrameInstruction(increment_program_counter(Mem), ins.arguments))

PopFrame == \E ins \in Fetch("POPFRAME") :
        Becomes(PopFrameInstruction(increment_program_counter(Mem), ins.arguments))

DefVar == \E ins \in Fetch("DEFVAR") :
        Becomes(DefVarInstruction(increment_program_counter(Mem), ins.arguments))

Call ==
    /\ Len(call_stack) < MaxCalls
    /\ \E ins \in Fetch("CALL") :
        Becomes(CallInstruction(increment_program_counter(Mem), ins.arguments))

Return == \E ins \in Fetch("RETURN") :
        Becomes(ReturnInstruction(increment_program_counter(Mem), ins.arguments))

PushS ==
    /\ Len(stack) < MaxStack
    /\ \E ins \in Fetch("PUSHS") :
        Becomes(PushSInstruction(increment_program_counter(Mem), ins.arguments))

PopS == \E ins \in Fetch("POPS") :
        Becomes(PopSInstruction(increment_program_counter(Mem), ins.arguments))

Read == \E ins \in Fetch("READ") :
        Becomes(ReadInstruction(increment_program_counter(Mem), ins.arguments))

Stri2Int == \E ins \in Fetch("STRI2INT") :
        Becomes(Stri2IntInstruction(increment_program_counter(Mem), ins.arguments))

GetChar == \E ins \in Fetch("GETCHAR") :
        Becomes(GetCharInstruction(increment_program_counter(Mem), ins.arguments))

SetChar == \E ins \in Fetch("SETCHAR") :
        Becomes(SetCharInstruction(increment_program_counter(Mem), ins.arguments))

Write ==
    /\ Len(stdout) < MaxOut
    /\ \E ins \in Fetch("WRITE") :
        Becomes(WriteInstruction(increment_program_counter(Mem), ins.arguments))

Type == \E ins \in Fetch("TYPE") :
        Becomes(TypeInstruction(increment_program_counter(Mem), ins.arguments))

Label == \E ins \in Fetch("LABEL") :
        Becomes(LabelInstruction(increment_program_counter(Mem), ins.arguments))

Jump == \E ins \in Fetch("JUMP") :
        Becomes(JumpInstruction(increment_program_counter(Mem), ins.arguments))

JumpIfEq == \E ins \in Fetch("JUMPIFEQ") :
        Becomes(JumpIfEqInstruction(increment_program_counter(Mem), ins.arguments))

JumpIfNeq == \E ins \in Fetch("JUMPIFNEQ") :
        Becomes(JumpIfNeqInstruction(increment_program_counter(Mem), ins.arguments))

Exit == \E ins \in Fetch("EXIT") :
        Becomes(ExitInstruction(increment_program_counter(Mem), ins.arguments))

Add == \E ins \in Fetch("ADD") :
        Becomes(AddInstruction(increment_program_counter(Mem), ins.arguments))

Sub == \E ins \in Fetch("SUB") :
        Becomes(SubInstruction(increment_program_counter(Mem), ins.arguments))

Mul == \E ins \in Fetch("MUL") :
        Becomes(MulInstruction(increment_program_counter(Mem), ins.arguments))

IDiv == \E ins \in Fetch("IDIV") :
        Becomes(IDivInstruction(increment_program_counter(Mem), ins.arguments))

LT == \E ins \in Fetch("LT") :
        Becomes(LTInstruction(increment_program_counter(Mem), ins.arguments))

GT == \E ins \in Fetch("GT") :
        Becomes(GTInstruction(increment_program_counter(Mem), ins.arguments))

EQ == \E ins \in Fetch("EQ") :
        Becomes(EQInstruction(increment_program_counter(Mem), ins.arguments))

\* The loop ends (line 1024) and with it main: the process exits with 0.
Finish ==
    /\ exit_code = NoExit
    /\ program \in {AnyProgram, AnyArithmetic, AnyRead, AnyStore} \/ program_counter >= Len(program)
    /\ Becomes(sys_exit(Mem, 0))

---------------------------------------------------------------------------
\* Specifications.

\* checkXML (lines 982-1011), which main runs before processXML, on children
\* whose i-th element is an instruction element of order i: with no child,
\* children[0] raises and the bare except exits (lines 990-994); with
\* children, every check of the loop passes (lines 996-1011).
checkXML(m, children) ==
    IF Len(children) = 0 THEN sys_exit(m, WRONG_XML_STRUCTURE_ERROR_CODE) ELSE m

\* A whole run of the interpreter on a program fixed at the start: the state
\* in which main (lines 1086-1117) calls processXML.
Init ==
    /\ program \in Programs
    /\ Is(checkXML(InitialMemory, program))

Next ==
    \/ Label \/ Jump \/ JumpIfEq \/ JumpIfNeq \/ Call \/ Return
    \/ Write \/ Exit \/ Finish

Spec == Init /\ [][Next]_vars

\* A run on a program that is not fixed: each fetch draws the instruction.
InitStream ==
    /\ program = AnyProgram
    /\ Is(InitialMemory)

NextStream ==
    \/ Move \/ CreateFrame \/ PushFrame \/ PopFrame \/ DefVar
    \/ PushS \/ PopS \/ Return \/ Write \/ Type \/ JumpIfEq \/ Exit \/ Finish

SpecStream == InitStream /\ [][NextStream]_vars

\* A run on a program of arithmetic and relational instructions, not fixed.
InitArithmetic ==
    /\ program = AnyArithmetic
    /\ Is(InitialMemory)

NextArithmetic ==
    \/ DefVar \/ Move \/ Add \/ Sub \/ Mul \/ IDiv \/ LT \/ GT \/ EQ \/ Finish

SpecArithmetic == InitArithmetic /\ [][NextArithmetic]_vars

\* A run on a program of ReadInstructions, not fixed, with the
\* input file main gives sys.stdin (lines 1100-1102).
InitRead ==
    /\ program = AnyRead
    /\ \E lines \in Inputs : Is([InitialMemory EXCEPT !.stdin = lines])

NextRead ==
    DefVar \/ Move \/ Read \/ Write \/ Stri2Int \/ GetChar \/ SetChar \/ Finish

SpecRead == InitRead /\ [][NextRead]_vars

\* A run on a program of StoreInstructions, not fixed.
InitStore ==
    /\ program = AnyStore
    /\ Is(InitialMemory)

NextStore ==
    \/ CreateFrame \/ PushFrame \/ PopFrame \/ DefVar \/ PushS \/ PopS
    \/ Label \/ Jump \/ Call \/ Return \/ Finish

SpecStore == InitStore /\ [][NextStore]_vars

\* A whole run on a program without jumps, with an input file.  The loop of
\* processXML is the only thread and nothing but input() makes it wait, and
\* input() returns the line or raises at the end of the file: a turn that can
\* be taken is taken.
InitStraight ==
    /\ program \in StraightPrograms
    /\ \E lines \in StraightInputs :
            Is(checkXML([InitialMemory EXCEPT !.stdin = lines], program))

NextStraight == Label \/ DefVar \/ Read \/ Exit \/ Finish

SpecStraight == InitStraight /\ [][NextStraight]_vars /\ WF_vars(NextStraight)

---------------------------------------------------------------------------
\* Vocabulary of the properties.

\* The process has not exited.
Running == exit_code = NoExit

\* children[pc] (line 1025) of a fixed program whose loop has not ended.
instruction_tag == program[program_counter + 1]

\* The loop is about to execute an instruction of the fixed program.
AtInstruction == Running /\ program_counter < Len(program)

\* The program has a LABEL instruction for name at an ordinal after the
\* current one / at any ordinal.
LabelAhead(name) ==
    \E j \in (program_counter + 2)..Len(program) :
        program[j] = Instruction("LABEL", <<LabelArgument(name)>>)

LabelInProgram(name) ==
    \E j \in 1..Len(program) :
        program[j] = Instruction("LABEL", <<LabelArgument(name)>>)

\* ins transfers control when executed: JUMP and CALL always, a conditional
\* jump on literals when they have one type and compare as the opcode asks.
Transfers(ins) ==
    \/ ins.opcode \in {"JUMP", "CALL"}
    \/ /\ ins.opcode = "JUMPIFEQ"
       /\ ins.arguments[2].value = ins.arguments[3].value
    \/ /\ ins.opcode = "JUMPIFNEQ"
       /\ ins.arguments[2].value.t = ins.arguments[3].value.t
       /\ ins.arguments[2].value # ins.arguments[3].value

---------------------------------------------------------------------------
\* Labels, calls and returns (Spec).

\* C1: a JUMP, a CALL or a taken conditional jump whose label is named by a
\* LABEL instruction at a higher ordinal that has not been executed yet does
\* not fault: the process is still running after the instruction.
C1_ForwardLabelResolves ==
    [][(/\ AtInstruction
        /\ Transfers(instruction_tag)
        /\ instruction_tag.arguments[1].value.v \notin DOMAIN labels
        /\ LabelAhead(instruction_tag.arguments[1].value.v))
       => exit_code' = NoExit]_vars

\* C2: a CALL at ordinal i whose label the program defines pushes i + 1, the
\* ordinal of the instruction after it, as the address its RETURN resumes at.
C2_CallPushesReturnAddress ==
    [][(/\ AtInstruction
        /\ instruction_tag.opcode = "CALL"
        /\ LabelInProgram(instruction_tag.arguments[1].value.v))
       => /\ exit_code' = NoExit
          /\ call_stack' = Append(call_stack, program_counter + 1)]_vars

---------------------------------------------------------------------------
\* Variables and values (SpecStream).

\* In memory m the variable's frame is allocated and has the name / what
\* the frame holds under the name.
Bound(m, variable) ==
    /\ ~get_frame(m, variable.frame).is_none
    /\ variable.name \in DOMAIN get_frame(m, variable.frame).dict

Stored(m, variable) == get_frame(m, variable.frame).dict[variable.name]

\* C3: reading a variable that has only been DEFVARed exits with 56 and
\* prints nothing, whichever of WRITE, PUSHS, EXIT and MOVE reads it.
C3_UnsetReadExits56 ==
    Running =>
        \A v \in Variables :
            LET defined == Execute(Mem, Instruction("DEFVAR", <<v>>)) IN
            defined.exit_code = NoExit =>
                \A ins \in {Instruction("WRITE", <<v>>), Instruction("PUSHS", <<v>>),
                            Instruction("EXIT", <<v>>), Instruction("MOVE", <<v, v>>)} :
                    /\ Execute(defined, ins).exit_code = ExitWith(MISSING_VALUE_ERROR_CODE)
                    /\ Execute(defined, ins).stdout = defined.stdout

\* C4: after a MOVE of a literal into a variable succeeds, a read of the
\* variable (by PUSHS) does not fault and yields the literal's value, for
\* nil and the empty string as for every other value.
C4_MovedValueIsRead ==
    Running =>
        \A v \in Variables, s \in Literals :
            LET moved == Execute(Mem, Instruction("MOVE", <<v, s>>))
                read == Execute(moved, Instruction("PUSHS", <<v>>))
            IN
            moved.exit_code = NoExit =>
                /\ read.exit_code = NoExit
                /\ read.stack = Append(moved.stack, s.value)

\* C5: TYPE of a variable that has only been DEFVARed does not fault and
\* stores the empty string; TYPE of a literal stores the name of its type.
C5_TypeOfUnsetIsEmpty ==
    Running =>
        \A dst \in Variables :
            /\ \A src \in Variables :
                LET defined == Execute(Mem, Instruction("DEFVAR", <<src>>))
                    typed == Execute(defined, Instruction("TYPE", <<dst, src>>))
                IN
                (defined.exit_code = NoExit /\ Bound(defined, dst)) =>
                    /\ typed.exit_code = NoExit
                    /\ Stored(typed, dst) = EmptyStr
            /\ \A s \in Literals :
                LET typed == Execute(Mem, Instruction("TYPE", <<dst, s>>)) IN
                Bound(Mem, dst) =>
                    /\ typed.exit_code = NoExit
                    /\ Stored(typed, dst) =
                         PyStr(CASE s.type = "int" -> STR_int
                                 [] s.type = "bool" -> STR_bool
                                 [] s.type = "string" -> STR_string
                                 [] s.type = "nil" -> STR_nil)

---------------------------------------------------------------------------
\* Frames (SpecStream).

CREATEFRAME == Instruction("CREATEFRAME", << >>)
PUSHFRAME == Instruction("PUSHFRAME", << >>)
POPFRAME == Instruction("POPFRAME", << >>)

\* Writes through LF: a DEFVAR, or a MOVE of a literal.
LocalWrites ==
    {Instruction("DEFVAR", <<VariableArgument("LF", n)>>) : n \in {"x", "y"}}
        \cup {Instruction("MOVE", <<VariableArgument("LF", n), s>>) :
                n \in {"x", "y"}, s \in {IntegerArgument(<<49>>), StringArgument(<<97>>)}}

\* No, one or two of them, one after the other.
LocalWriteSeqs == UNION {[1..n -> LocalWrites] : n \in 0..2}

\* The bindings of a frame with bindings d once the writes have been made:
\* DEFVAR binds the name to no value, MOVE binds it to the literal.
RECURSIVE Written(_, _)
Written(d, writes) ==
    IF writes = << >> THEN d
    ELSE Written(DictSet(d, Head(writes).arguments[1].name,
                         IF Head(writes).opcode = "DEFVAR" THEN None
                         ELSE Head(writes).arguments[2].value),
                 Tail(writes))

\* C6: PUSHFRAME moves the whole temporary frame onto the frame stack, where
\* LF addresses it, and leaves TF unallocated; a POPFRAME after writes through
\* LF that succeed moves the frame back into TF with its old bindings and
\* those written, and the frame stack is as before.  The program CREATEFRAME;
\* DEFVAR TF@x; MOVE TF@x 1; PUSHFRAME; DEFVAR LF@y; MOVE LF@y 2; POPFRAME
\* ends with TF = {x = 1, y = 2}.
C6_FrameMovesWhole ==
    /\ (Running /\ ~temporary_frame.is_none) =>
        \A writes \in LocalWriteSeqs :
            LET pushed == Execute(Mem, PUSHFRAME)
                written == Run(pushed, writes)
                popped == Execute(written, POPFRAME)
            IN
            /\ pushed.exit_code = NoExit
            /\ pushed.temporary_frame = NoneFrame
            /\ pushed.frame_stack = Append(frame_stack, temporary_frame.dict)
            /\ get_frame(pushed, "LF") = temporary_frame
            /\ written.exit_code = NoExit =>
                /\ popped.exit_code = NoExit
                /\ popped.temporary_frame =
                       SomeFrame(Written(temporary_frame.dict, writes))
                /\ popped.frame_stack = frame_stack
    /\ Run(InitialMemory,
           <<CREATEFRAME,
             Instruction("DEFVAR", <<VariableArgument("TF", "x")>>),
             Instruction("MOVE", <<VariableArgument("TF", "x"), IntegerArgument(<<49>>)>>),
             PUSHFRAME,
             Instruction("DEFVAR", <<VariableArgument("LF", "y")>>),
             Instruction("MOVE", <<VariableArgument("LF", "y"), IntegerArgument(<<50>>)>>),
             POPFRAME>>).temporary_frame
         = SomeFrame([n \in {"x", "y"} |-> IF n = "x" THEN PyInt(1) ELSE PyInt(2)])

\* A run has defined x in the temporary frame, pushed the frame, defined y
\* through LF and given it a value, and popped the frame: TF has both, and is
\* the only frame there is.
C6_Witness ==
    /\ Running
    /\ ~temporary_frame.is_none
    /\ DOMAIN temporary_frame.dict = {"x", "y"}
    /\ temporary_frame.dict["y"] = PyInt(1)
    /\ frame_stack = << >>

\* C7: LF refers to the top element of the frame stack when the stack is not
\* empty, and to nothing when it is: an access to LF finds the top frame or
\* no frame.
C7_LocalFrameIsTop ==
    /\ local_frame = IF frame_stack = << >> THEN NoneRef ELSE RefTo(Len(frame_stack))
    /\ get_frame(Mem, "LF") = IF frame_stack = << >> THEN NoneFrame
                              ELSE SomeFrame(frame_stack[Len(frame_stack)])

\* Two frames were pushed, y was defined through LF, and the frame with y was
\* popped: LF is the frame that was under it.
C7_Witness ==
    /\ Running
    /\ Len(frame_stack) = 1
    /\ ~temporary_frame.is_none
    /\ "y" \in DOMAIN temporary_frame.dict
    /\ get_frame(Mem, "LF") = SomeFrame(frame_stack[1])

\* The k-th operand passes the check variable_args_check makes of it by
\* default: a literal always; a first operand when its frame is allocated; a
\* later operand when it is bound and holds a value.
OperandPasses(m, arguments, k) ==
    arguments[k].type = "var" =>
        IF k = 1 THEN ~get_frame(m, arguments[k].frame).is_none
        ELSE /\ Bound(m, arguments[k])
             /\ Stored(m, arguments[k]) \notin {None, EmptyStr}

\* An operand names a variable of a frame that is not allocated.
NamesUnallocated(m, arguments) ==
    \E k \in 1..Len(arguments) :
        /\ arguments[k].type = "var"
        /\ get_frame(m, arguments[k].frame).is_none

\* The same, and every operand before it passes its check.
FirstFaultIsUnallocated(m, arguments) ==
    \E k \in 1..Len(arguments) :
        /\ arguments[k].type = "var"
        /\ get_frame(m, arguments[k].frame).is_none
        /\ \A j \in 1..(k - 1) : OperandPasses(m, arguments, j)

\* TF is unallocated at the start and after every PUSHFRAME, LF is
\* unallocated exactly when the frame stack is empty, and in those states
\* PUSHFRAME and POPFRAME exit with 55.
UnallocatedFrames ==
    /\ program_counter = 0 => temporary_frame.is_none
    /\ Execute(Mem, PUSHFRAME).exit_code = NoExit =>
           Execute(Mem, PUSHFRAME).temporary_frame.is_none
    /\ get_frame(Mem, "LF").is_none <=> frame_stack = << >>
    /\ temporary_frame.is_none =>
           Execute(Mem, PUSHFRAME).exit_code = ExitWith(NON_EXISTING_FRAME_ERROR_CODE)
    /\ frame_stack = << >> =>
           Execute(Mem, POPFRAME).exit_code = ExitWith(NON_EXISTING_FRAME_ERROR_CODE)

\* C8 as amended: with UnallocatedFrames, an instruction whose first operand
\* to fault names a variable of an unallocated frame exits with 55.
C8_FirstFaultUnallocatedExits55 ==
    Running =>
        /\ UnallocatedFrames
        /\ \A ins \in StreamInstructions :
               FirstFaultIsUnallocated(Mem, ins.arguments) =>
                   Execute(Mem, ins).exit_code = ExitWith(NON_EXISTING_FRAME_ERROR_CODE)

\* C8 as stated: with UnallocatedFrames, every instruction that has an
\* operand naming a variable of an unallocated frame exits with 55.
C8_UnallocatedAlwaysExits55 ==
    Running =>
        /\ UnallocatedFrames
        /\ \A ins \in StreamInstructions :
               NamesUnallocated(Mem, ins.arguments) =>
                   Execute(Mem, ins).exit_code = ExitWith(NON_EXISTING_FRAME_ERROR_CODE)

\* The temporary frame was pushed and not made anew, the global x holds a
\* value, and the conditional jump that reads GF@x and then TF@x exits with
\* 55, as does DEFVAR TF@x.
C8_Witness ==
    /\ Running
    /\ temporary_frame.is_none
    /\ frame_stack # << >>
    /\ "x" \in DOMAIN global_frame
    /\ global_frame["x"] = PyInt(1)
    /\ Execute(Mem, Instruction("JUMPIFEQ", <<LabelArgument("a"),
                   VariableArgument("GF", "x"), VariableArgument("TF", "x")>>)).exit_code
           = ExitWith(NON_EXISTING_FRAME_ERROR_CODE)
    /\ Execute(Mem, Instruction("DEFVAR", <<VariableArgument("TF", "x")>>)).exit_code
           = ExitWith(NON_EXISTING_FRAME_ERROR_CODE)

\* C9 as amended: CREATEFRAME; PUSHFRAME; POPFRAME, one after the other,
\* succeed and leave TF allocated and empty, the frame CREATEFRAME made, and
\* the frame stack, LF and the rest of the memory as they were; only the
\* program counter has moved on.
C9_LeavesEmptyTemporaryFrame ==
    Running =>
        Run(Mem, <<CREATEFRAME, PUSHFRAME, POPFRAME>>)
            = [Mem EXCEPT !.temporary_frame = SomeFrame(EmptyDict),
                          !.program_counter = @ + 3]

\* C9 as stated: CREATEFRAME; PUSHFRAME; POPFRAME leave TF with the bindings
\* it had before the CREATEFRAME (none when it was not allocated), and the
\* frame stack and LF as they were.
C9_RestoresTemporaryFrame ==
    Running =>
        LET after == Run(Mem, <<CREATEFRAME, PUSHFRAME, POPFRAME>>) IN
        /\ after.temporary_frame.dict = temporary_frame.dict
        /\ after.frame_stack = frame_stack
        /\ after.local_frame = local_frame

\* The temporary frame has a binding, there is a local frame, and the three
\* instructions leave an empty temporary frame over the same frame stack.
C9_Witness ==
    /\ Running
    /\ ~temporary_frame.is_none
    /\ "x" \in DOMAIN temporary_frame.dict
    /\ frame_stack # << >>
    /\ Run(Mem, <<CREATEFRAME, PUSHFRAME, POPFRAME>>).temporary_frame = SomeFrame(EmptyDict)
    /\ Run(Mem, <<CREATEFRAME, PUSHFRAME, POPFRAME>>).frame_stack = frame_stack
    /\ Run(Mem, <<CREATEFRAME, PUSHFRAME, POPFRAME>>).exit_code = NoExit

---------------------------------------------------------------------------
\* The operand stack (SpecStream).

\* C10: PUSHS of a symbol that succeeds, then POPS into a bound variable,
\* succeeds, leaves the variable holding the pushed value (that of the
\* literal, or what the pushed variable held) and the operand stack as it was
\* before the PUSHS.  What a later read makes of a stored nil or empty
\* string is the matter of C4.
C10_PushPopRoundTrip ==
    Running =>
        \A s \in Symbols, v \in Variables :
            LET pushed == Execute(Mem, Instruction("PUSHS", <<s>>))
                popped == Execute(pushed, Instruction("POPS", <<v>>))
            IN
            (pushed.exit_code = NoExit /\ Bound(Mem, v)) =>
                /\ popped.exit_code = NoExit
                /\ popped.stack = stack
                /\ Stored(popped, v) = IF s.type = "var" THEN Stored(Mem, s) ELSE s.value

\* The operand stack is not empty, the global x holds 1, and the round trip
\* of the empty string and of nil into x leaves x with it and the stack as
\* it is.
C10_Witness ==
    /\ Running
    /\ stack # << >>
    /\ "x" \in DOMAIN global_frame
    /\ global_frame["x"] = PyInt(1)
    /\ \A s \in {StringArgument(<< >>), NilArgument} :
        LET popped == Run(Mem, <<Instruction("PUSHS", <<s>>),
                                 Instruction("POPS", <<VariableArgument("GF", "x")>>)>>)
        IN
        /\ popped.exit_code = NoExit
        /\ popped.global_frame["x"] = s.value
        /\ popped.stack = stack


---------------------------------------------------------------------------
\* Labels at run time, faults and the end of the program (Spec).

\* The program has two LABEL instructions of one name.
DuplicateLabel ==
    \E i, j \in 1..Len(program) :
        /\ i < j
        /\ program[i].opcode = "LABEL"
        /\ program[j] = program[i]

\* C11: in a program whose LABELs all have different names, executing a
\* LABEL instruction never faults and leaves the label table as it was: the
\* labels hold the same entries after the instruction as before it, the
\* first time the LABEL is executed and every later time.
C11_LabelHasNoEffect ==
    [][(AtInstruction /\ instruction_tag.opcode = "LABEL" /\ ~DuplicateLabel)
       => /\ exit_code' = NoExit
          /\ labels' = labels]_vars

\* C12: a program with two LABEL instructions of one name never prints
\* anything and never exits with a code other than 52, wherever the two
\* LABELs stand and whether or not control reaches them.
C12_DuplicateLabelExits52First ==
    DuplicateLabel
        => /\ stdout = << >>
           /\ exit_code \in {NoExit, ExitWith(SEMANTIC_ERROR_CODE)}


\* C13: a fault ends the run.  Every step is taken by a process that has not
\* exited, so no instruction executes and nothing changes after a fault (or
\* any other exit); the step executes the instruction at the program counter
\* and nothing else, so the exit code is the one of the first instruction on
\* the executed path that faults, whatever the instructions that were not
\* reached would do.
C13_FaultIsFatal ==
    [][/\ Running
       /\ AtInstruction => Mem' = Execute(Mem, instruction_tag)
       /\ ~AtInstruction => Mem' = sys_exit(Mem, 0)]_vars

\* The run has ended with the 56 of a RETURN on an empty call stack, and the
\* instruction after it, never executed, is a JUMP to a label that is not
\* defined: it would have exited with 52.
C13_Witness ==
    /\ exit_code = ExitWith(MISSING_VALUE_ERROR_CODE)
    /\ program_counter > 0
    /\ program[program_counter].opcode = "RETURN"
    /\ program_counter < Len(program)
    /\ program[program_counter + 1].opcode = "JUMP"
    /\ program[program_counter + 1].arguments[1].value.v \notin DOMAIN labels


\* C14: a fetch at a program counter equal to the length of the program
\* ends the run with exit code 0: the step taken there exits with 0, and a
\* program of no instructions, whose first fetch is such a fetch, never has
\* another exit code.
C14_EndOfProgramExits0 ==
    /\ [](Len(program) = 0 => exit_code \in {NoExit, ExitWith(0)})
    /\ [][(Running /\ program_counter = Len(program))
          => exit_code' = ExitWith(0)]_vars


---------------------------------------------------------------------------
\* Relational and arithmetic instructions (SpecArithmetic), conditional
\* jumps (Spec).

\* GF@x, the destination of the instructions of the arithmetic stream.
GFx == VariableArgument("GF", "x")

\* The literal operands.
LiteralOperands == {arg \in Operands : arg.type # "var"}

\* C15: with GF@x defined and literal operands, EQ does not fault when an
\* operand is nil and stores whether both are nil; with no nil operand it
\* exits with 53 when the types differ and otherwise stores whether the
\* values are equal; LT and GT exit with 53 when an operand is nil or the
\* types differ.
C15_EqAcceptsNil ==
    (Running /\ Bound(Mem, GFx)) =>
        \A a, b \in LiteralOperands :
            LET eq == Execute(Mem, Instruction("EQ", <<GFx, a, b>>))
                lt == Execute(Mem, Instruction("LT", <<GFx, a, b>>))
                gt == Execute(Mem, Instruction("GT", <<GFx, a, b>>))
                nil == a.value = None \/ b.value = None
                differ == a.value.t # b.value.t
            IN
            /\ nil => /\ eq.exit_code = NoExit
                      /\ Stored(eq, GFx) = PyBool(a.value = None /\ b.value = None)
            /\ (~nil /\ differ)
                    => eq.exit_code = ExitWith(WRONG_OPERAND_TYPE_ERROR_CODE)
            /\ (~nil /\ ~differ) => /\ eq.exit_code = NoExit
                                    /\ Stored(eq, GFx) = PyBool(a.value = b.value)
            /\ (nil \/ differ)
                    => /\ lt.exit_code = ExitWith(WRONG_OPERAND_TYPE_ERROR_CODE)
                       /\ gt.exit_code = ExitWith(WRONG_OPERAND_TYPE_ERROR_CODE)


\* C16: in a running program, a JUMPIFEQ or JUMPIFNEQ to a label that is
\* defined, on literal operands, exits with 53 when the types of the operands
\* differ and neither is nil; when exactly one operand is nil it does not
\* fault and takes the operands for unequal (JUMPIFEQ goes on with the next
\* instruction, JUMPIFNEQ jumps); when the types are the same JUMPIFEQ jumps
\* if and only if the values are equal and JUMPIFNEQ if and only if they are
\* not.
C16_NilComparesUnequal ==
    Running =>
        \A l \in DOMAIN labels : \A a, b \in LiteralOperands :
            LET fetched == increment_program_counter(Mem)
                jumped == set_program_counter(fetched, labels[l])
                eq == Execute(Mem, Instruction("JUMPIFEQ", <<LabelArgument(l), a, b>>))
                neq == Execute(Mem, Instruction("JUMPIFNEQ", <<LabelArgument(l), a, b>>))
                one_nil == (a.value = None) # (b.value = None)
                differ == a.value.t # b.value.t
            IN
            /\ (differ /\ ~one_nil)
                    => /\ eq.exit_code = ExitWith(WRONG_OPERAND_TYPE_ERROR_CODE)
                       /\ neq.exit_code = ExitWith(WRONG_OPERAND_TYPE_ERROR_CODE)
            /\ one_nil => (eq = fetched /\ neq = jumped)
            /\ ~differ => /\ eq = (IF a.value = b.value THEN jumped ELSE fetched)
                          /\ neq = (IF a.value = b.value THEN fetched ELSE jumped)


\* The arithmetic opcodes, and the literal operands that are ints / are not.
ArithmeticOpcodes == {"ADD", "SUB", "MUL", "IDIV"}

IntOperands == {arg \in LiteralOperands : arg.type = "int"}

OtherOperands == LiteralOperands \ IntOperands

\* C17: with GF@x defined, an ADD, SUB, MUL or IDIV into GF@x exits with 53
\* and leaves GF@x as it was when a source operand is a literal that is not
\* an int, and also when a source operand is GF@x and GF@x has just been
\* assigned a bool, a string or nil by MOVE; an IDIV of an int by the int 0
\* exits with 57 and leaves GF@x as it was.
C17_NonIntOperandExits53 ==
    (Running /\ Bound(Mem, GFx)) =>
        /\ \A op \in ArithmeticOpcodes : \A a, b \in LiteralOperands :
                (a \in OtherOperands \/ b \in OtherOperands) =>
                    LET done == Execute(Mem, Instruction(op, <<GFx, a, b>>)) IN
                    /\ done.exit_code = ExitWith(WRONG_OPERAND_TYPE_ERROR_CODE)
                    /\ Stored(done, GFx) = Stored(Mem, GFx)
        /\ \A op \in ArithmeticOpcodes : \A other \in OtherOperands : \A a \in IntOperands :
                LET moved == Execute(Mem, Instruction("MOVE", <<GFx, other>>))
                    first == Execute(moved, Instruction(op, <<GFx, GFx, a>>))
                    second == Execute(moved, Instruction(op, <<GFx, a, GFx>>))
                IN
                /\ moved.exit_code = NoExit
                /\ first.exit_code = ExitWith(WRONG_OPERAND_TYPE_ERROR_CODE)
                /\ second.exit_code = ExitWith(WRONG_OPERAND_TYPE_ERROR_CODE)
                /\ Stored(first, GFx) = other.value
                /\ Stored(second, GFx) = other.value
        /\ \A a \in IntOperands :
                LET done == Execute(Mem, Instruction("IDIV", <<GFx, a, IntegerArgument(<<48>>)>>))
                IN
                /\ done.exit_code = ExitWith(WRONG_OPERAND_VALUE_ERROR_CODE)
                /\ Stored(done, GFx) = Stored(Mem, GFx)


\* The int x is one of a 64-bit signed integer: -2^63 <= x <= 2^63 - 1.
InInt64(x) == ~int_less(x, int(STR_INT64_MIN)) /\ ~int_less(int(STR_INT64_MAX), x)

\* quotient is a divided by b rounded toward negative infinity: what a -
\* quotient * b leaves is 0 or has the sign of b, and is nearer to 0 than b.
IsFloor(quotient, a, b) ==
    LET left == int_sub(a, int_mul(quotient, b)) IN
    /\ left.digits # << >> => left.neg = b.neg
    /\ nat_less(left.digits, b.digits)

\* C18: with GF@x defined, an ADD, SUB, MUL or IDIV of two int literals (the
\* divisor of IDIV not 0) stores an int in GF@x that lies in [-2^63, 2^63 - 1],
\* and what IDIV stores is the quotient rounded toward negative infinity: -4
\* for -7 by 2 and for 7 by -2.
C18_ResultsAre64Bit ==
    (Running /\ Bound(Mem, GFx)) =>
        /\ \A op \in ArithmeticOpcodes : \A a, b \in IntOperands :
                (op = "IDIV" => b.value.v # long(0)) =>
                    LET done == Execute(Mem, Instruction(op, <<GFx, a, b>>)) IN
                    /\ done.exit_code = NoExit
                    /\ Stored(done, GFx).t = "int"
                    /\ InInt64(Stored(done, GFx).v)
                    /\ op = "IDIV" => IsFloor(Stored(done, GFx).v, a.value.v, b.value.v)
        /\ Stored(Execute(Mem, Instruction("IDIV", <<GFx, IntegerArgument(<<45, 55>>),
                                                     IntegerArgument(<<50>>)>>)), GFx)
                = PyInt(-4)
        /\ Stored(Execute(Mem, Instruction("IDIV", <<GFx, IntegerArgument(<<55>>),
                                                     IntegerArgument(<<45, 50>>)>>)), GFx)
                = PyInt(-4)

\* The operands of EXIT: the ints 0, 7, 49, 50, -1 and 2^63 - 1, and a literal
\* of every other type.
ExitOperands ==
    {IntegerArgument(text) :
        text \in {<<48>>, <<55>>, <<52, 57>>, <<53, 48>>, <<45, 49>>, STR_INT64_MAX}}
        \cup {BooleanArgument(TRUE), StringArgument(<< >>), StringArgument(<<97>>),
              NilArgument}

\* The exit code EXIT owes for the literal: n for an int n of 0..49, 57 for
\* any other int, 53 for a literal of another type.
Owed(literal) ==
    IF literal.type # "int" THEN ExitWith(WRONG_OPERAND_TYPE_ERROR_CODE)
    ELSE IF literal.value.v \in {long(n) : n \in 0..49}
         THEN ExitWith(int_value(literal.value.v))
    ELSE ExitWith(WRONG_OPERAND_VALUE_ERROR_CODE)

\* done is m halted with the exit code, and nothing else of m changed but the
\* program counter, which went past the EXIT.
HaltedWith(done, m, exit) ==
    done = [m EXCEPT !.exit_code = exit, !.program_counter = m.program_counter + 1]

\* C19: EXIT of a literal halts with the int itself when it is an int of 0..49,
\* with 57 when it is another int (50, -1), with 53 when it is not an int, and
\* changes nothing else; so does EXIT of a variable that the instruction before
\* it, a MOVE that succeeded, gave the literal's value.
C19_ExitHaltsWithCode ==
    Running =>
        \A s \in ExitOperands :
            /\ HaltedWith(Execute(Mem, Instruction("EXIT", <<s>>)), Mem, Owed(s))
            /\ \A v \in Variables :
                    LET moved == Execute(Mem, Instruction("MOVE", <<v, s>>)) IN
                    moved.exit_code = NoExit =>
                        HaltedWith(Execute(moved, Instruction("EXIT", <<v>>)), moved, Owed(s))

----------------------------------------------------------------------------
\* The two stacks (SpecStream).

\* POPS v with the operand stack empty exits with exit.
EmptyPopExits(v, exit) ==
    Len(stack) = 0 =>
        Execute(Mem, Instruction("POPS", <<v>>)).exit_code = exit

\* POPS v after PUSHS of first and then of second stores the value of second
\* in v and leaves the operand stack with the value of first on top of what
\* it held.
PopsLastPushed(first, second, v) ==
    LET pushed == Run(Mem, <<Instruction("PUSHS", <<first>>),
                             Instruction("PUSHS", <<second>>)>>)
        popped == Execute(pushed, Instruction("POPS", <<v>>))
    IN
    /\ pushed.stack = stack \o <<first.value, second.value>>
    /\ popped.exit_code = NoExit
    /\ Stored(popped, v) = second.value
    /\ popped.stack = Append(stack, first.value)

\* RETURN with the call stack empty exits with 56; after push_call_stack of
\* first and then of second (what two CALLs do) it sets the program counter to
\* second and leaves the call stack with first on top of what it held.
ReturnsToLastPushed ==
    /\ Len(call_stack) = 0 =>
            Execute(Mem, Instruction("RETURN", << >>)).exit_code
                = ExitWith(MISSING_VALUE_ERROR_CODE)
    /\ \A first, second \in 0..MaxProg :
            LET called == push_call_stack(push_call_stack(Mem, first), second)
                returned == Execute(called, Instruction("RETURN", << >>))
            IN
            /\ returned.exit_code = NoExit
            /\ returned.program_counter = second
            /\ returned.call_stack = Append(call_stack, first)

\* No instruction but PUSHS and POPS changes the depth of the operand stack,
\* and none but CALL and RETURN that of the call stack.
DepthsKept ==
    \A ins \in StreamInstructions \cup ProgramInstructions :
        LET done == Execute(Mem, ins) IN
        /\ ins.opcode \notin {"PUSHS", "POPS"} => Len(done.stack) = Len(stack)
        /\ ins.opcode \notin {"CALL", "RETURN"} => Len(done.call_stack) = Len(call_stack)

\* C20 as stated: POPS with the operand stack empty exits with 56 and RETURN
\* with the call stack empty exits with 56; POPS takes the value pushed last
\* and RETURN the return address pushed last, whatever variable POPS names; no
\* other instruction changes the depth of either stack.
C20_EmptyPopAlwaysExits56 ==
    Running =>
        /\ \A v \in Variables :
            /\ EmptyPopExits(v, ExitWith(MISSING_VALUE_ERROR_CODE))
            /\ \A first, second \in Literals : PopsLastPushed(first, second, v)
        /\ ReturnsToLastPushed
        /\ DepthsKept

\* C20 amended: POPS with the operand stack empty exits with 56 when the frame
\* of its variable is allocated and with 55 when it is not; POPS into a bound
\* variable takes the value pushed last; RETURN with the call stack empty exits
\* with 56 and RETURN takes the return address pushed last; no other
\* instruction changes the depth of either stack.
C20_StacksAreLifo ==
    Running =>
        /\ \A v \in Variables :
            /\ EmptyPopExits(v, IF get_frame(Mem, v.frame).is_none
                                THEN ExitWith(NON_EXISTING_FRAME_ERROR_CODE)
                                ELSE ExitWith(MISSING_VALUE_ERROR_CODE))
            /\ Bound(Mem, v) =>
                    \A first, second \in Literals : PopsLastPushed(first, second, v)
        /\ ReturnsToLastPushed
        /\ DepthsKept

\* Both stacks are empty, the temporary frame is not allocated and the global
\* x is bound: POPS TF@x exits with 55 and POPS GF@x with 56, RETURN exits with
\* 56, and after PUSHS of 1 and of "a" two POPS into GF@x leave x holding 1.
C20_Witness ==
    /\ Running
    /\ stack = << >>
    /\ call_stack = << >>
    /\ temporary_frame.is_none
    /\ Bound(Mem, GFx)
    /\ Execute(Mem, Instruction("POPS", <<VariableArgument("TF", "x")>>)).exit_code
            = ExitWith(NON_EXISTING_FRAME_ERROR_CODE)
    /\ Execute(Mem, Instruction("POPS", <<GFx>>)).exit_code
            = ExitWith(MISSING_VALUE_ERROR_CODE)
    /\ Execute(Mem, Instruction("RETURN", << >>)).exit_code
            = ExitWith(MISSING_VALUE_ERROR_CODE)
    /\ LET popped == Run(Mem, <<Instruction("PUSHS", <<IntegerArgument(<<49>>)>>),
                                Instruction("PUSHS", <<StringArgument(<<97>>)>>),
                                Instruction("POPS", <<GFx>>),
                                Instruction("POPS", <<GFx>>)>>)
       IN
       /\ popped.exit_code = NoExit
       /\ Stored(popped, GFx) = PyInt(1)
       /\ popped.stack = << >>

----------------------------------------------------------------------------
\* Definition of variables (SpecStream).

\* The frames and what they bind.
Bindings(m) == <<m.global_frame, m.temporary_frame, m.frame_stack, m.local_frame>>

\* The operand names a variable that its frame, which is allocated, does not
\* bind.
Absent(m, arg) ==
    /\ arg.type = "var"
    /\ ~get_frame(m, arg.frame).is_none
    /\ arg.name \notin DOMAIN get_frame(m, arg.frame).dict

\* Instructions that read or write variables: those of the stream but DEFVAR,
\* and an ADD of two literals into each variable.
Accesses ==
    {ins \in StreamInstructions : ins.opcode # "DEFVAR"}
        \cup {Instruction("ADD", <<v, IntegerArgument(<<49>>), IntegerArgument(<<49>>)>>) :
                v \in Variables}

\* Nothing but an absent variable can make the instruction fault: every
\* operand that is not absent passes its check, and a POPS finds a value on
\* the operand stack.
OnlyAbsentFaults(m, ins) ==
    /\ \A k \in 1..Len(ins.arguments) :
            Absent(m, ins.arguments[k]) \/ OperandPasses(m, ins.arguments, k)
    /\ ins.opcode = "POPS" => Len(m.stack) > 0

\* DEFVAR v, the frame of v allocated: when v is bound it exits with 52 and
\* changes nothing; when v is not, it binds v to no value (a PUSHS of v then
\* exits with 56) and leaves every other variable as it was, bound or not.
DefVarDefinesOnce ==
    \A v \in Variables :
        ~get_frame(Mem, v.frame).is_none =>
            LET done == Execute(Mem, Instruction("DEFVAR", <<v>>)) IN
            IF Bound(Mem, v)
            THEN HaltedWith(done, Mem, ExitWith(SEMANTIC_ERROR_CODE))
            ELSE /\ done.exit_code = NoExit
                 /\ Bound(done, v)
                 /\ Stored(done, v) = None
                 /\ Execute(done, Instruction("PUSHS", <<v>>)).exit_code
                        = ExitWith(MISSING_VALUE_ERROR_CODE)
                 /\ \A w \in Variables \ {v} :
                        /\ Bound(done, w) <=> Bound(Mem, w)
                        /\ Bound(Mem, w) => Stored(done, w) = Stored(Mem, w)

\* C21 as stated: DefVarDefinesOnce, and every instruction that reads or
\* writes a variable absent from its allocated frame exits with 54 and binds
\* nothing.
C21_AbsentAlwaysExits54 ==
    Running =>
        /\ DefVarDefinesOnce
        /\ \A ins \in Accesses :
            (\E k \in 1..Len(ins.arguments) : Absent(Mem, ins.arguments[k])) =>
                /\ Execute(Mem, ins).exit_code = ExitWith(UNDEFINED_VARIABLE_ERROR_CODE)
                /\ Bindings(Execute(Mem, ins)) = Bindings(Mem)

\* C21 amended: DefVarDefinesOnce, and every instruction that reads or writes
\* a variable absent from its allocated frame faults and binds nothing; it
\* exits with 54 when nothing but an absent variable can make it fault.
C21_AbsentExits54 ==
    Running =>
        /\ DefVarDefinesOnce
        /\ \A ins \in Accesses :
            (\E k \in 1..Len(ins.arguments) : Absent(Mem, ins.arguments[k])) =>
                /\ Execute(Mem, ins).exit_code # NoExit
                /\ Bindings(Execute(Mem, ins)) = Bindings(Mem)
                /\ OnlyAbsentFaults(Mem, ins) =>
                        Execute(Mem, ins).exit_code
                            = ExitWith(UNDEFINED_VARIABLE_ERROR_CODE)

\* x is bound in the global and in the local frame and not in the temporary
\* frame, which is allocated, and the operand stack holds a value: DEFVAR of
\* TF@x binds it, DEFVAR of GF@x exits with 52, and MOVE and POPS into TF@x
\* exit with 54.
C21_Witness ==
    LET TFx == VariableArgument("TF", "x") IN
    /\ Running
    /\ Bound(Mem, GFx)
    /\ Bound(Mem, VariableArgument("LF", "x"))
    /\ Absent(Mem, TFx)
    /\ stack # << >>
    /\ Bound(Execute(Mem, Instruction("DEFVAR", <<TFx>>)), TFx)
    /\ Execute(Mem, Instruction("DEFVAR", <<GFx>>)).exit_code
            = ExitWith(SEMANTIC_ERROR_CODE)
    /\ \A ins \in {Instruction("MOVE", <<TFx, IntegerArgument(<<49>>)>>),
                   Instruction("POPS", <<TFx>>)} :
            Execute(Mem, ins).exit_code = ExitWith(UNDEFINED_VARIABLE_ERROR_CODE)

----------------------------------------------------------------------------
\* Input and output (SpecRead).

\* The line is a decimal integer: decimal digits, after a sign or no sign.
IsNumeral(line) ==
    LET digits == IF line # << >> /\ line[1] \in {43, 45} THEN Tail(line) ELSE line IN
    /\ digits # << >>
    /\ \A i \in 1..Len(digits) : IsDigit(digits[i])

\* C22: with GF@x defined, READ into GF@x does not fault; at the end of the
\* input GF@x becomes nil; with a line to read, type int stores the int the
\* line is the decimal numeral of and nil when it is none, type bool stores
\* whether the line is "true" in any case of letters, type string stores the
\* line.
C22_ReadNeverFaults ==
    (Running /\ Bound(Mem, GFx)) =>
        \A type \in {STR_int, STR_bool, STR_string} :
            LET done == Execute(Mem, Instruction("READ", <<GFx, TypeArgument(type)>>))
                line == Head(stdin)
            IN
            /\ done.exit_code = NoExit
            /\ Stored(done, GFx) =
                    IF stdin = << >> THEN None
                    ELSE IF type = STR_int
                         THEN IF IsNumeral(line) THEN [t |-> "int", v |-> int(line)] ELSE None
                    ELSE IF type = STR_bool THEN PyBool(lower(line) = STR_true)
                    ELSE PyStr(line)

\* text is how the spec formats value: for an int the decimal numeral that has
\* no sign but '-', and that only when the int is negative, and no leading 0;
\* "true" or "false" for a bool; the text of a str; the empty text for nil.
Formats(text, value) ==
    CASE value.t = "int" ->
            /\ IsNumeral(text)
            /\ int(text) = value.v
            /\ text[1] # 43
            /\ text[1] = 45 <=> value.v.neg
            /\ LET digits == IF text[1] = 45 THEN Tail(text) ELSE text IN
               digits[1] = 48 => digits = <<48>>
      [] value.t = "bool" -> text = IF value.v THEN STR_true ELSE STR_false
      [] value.t = "str" -> text = value.v
      [] value.t = "NoneType" -> text = << >>

\* done is m after a print of one text that formats value, and nothing else of
\* m changed but the program counter, which went past the WRITE.
Wrote(done, m, value) ==
    /\ Len(done.stdout) = Len(m.stdout) + 1
    /\ Formats(done.stdout[Len(done.stdout)], value)
    /\ done = [m EXCEPT !.stdout = done.stdout, !.program_counter = m.program_counter + 1]

\* C23: WRITE of a literal prints the literal's value formatted, and WRITE of
\* GF@x when it is defined what GF@x holds formatted; they print nothing
\* else and change nothing else.
C23_WritePrintsFormatted ==
    Running =>
        \A ins \in {i \in ReadInstructions : i.opcode = "WRITE"} :
            LET sym == ins.arguments[1] IN
            IF sym.type = "var"
            THEN Bound(Mem, sym) => Wrote(Execute(Mem, ins), Mem, Stored(Mem, sym))
            ELSE Wrote(Execute(Mem, ins), Mem, sym.value)

----------------------------------------------------------------------------
\* Indexing of strings (SpecRead).

\* The int of the index operand is outside 0 .. len - 1.
Outside(index, len) ==
    index.value.v.neg \/ index.value.v \notin {long(n) : n \in 0..(len - 1)}

\* The instruction exits with 58 when fault holds, and does not exit with 58
\* when it does not.
Exits58Iff(ins, fault) ==
    Execute(Mem, ins).exit_code = ExitWith(STRING_OPERATION_ERROR_CODE) <=> fault

\* after is before with position at (from 0) replaced by code point c.
ReplacedAt(after, before, at, c) ==
    /\ Len(after) = Len(before)
    /\ \A k \in 1..Len(before) : after[k] = IF k = at + 1 THEN c ELSE before[k]

\* C24: with GF@x holding a string s, the empty string too, GETCHAR and
\* STRI2INT of s and SETCHAR of GF@x exit with 58 exactly when the index is
\* outside 0 .. len(s) - 1, SETCHAR also when the replacement is empty;
\* GETCHAR and STRI2INT of the empty string literal exit with 58; a SETCHAR
\* that does not exit with 58 leaves GF@x holding s with the position of the
\* index replaced by the first code point of the replacement.
C24_IndexOutsideExits58 ==
    (Running /\ Bound(Mem, GFx) /\ Stored(Mem, GFx).t = "str") =>
        LET s == Stored(Mem, GFx).v IN
        \A index \in Indexes :
            /\ \A op \in {"GETCHAR", "STRI2INT"} :
                /\ Exits58Iff(Instruction(op, <<GFx, GFx, index>>), Outside(index, Len(s)))
                /\ Exits58Iff(Instruction(op, <<GFx, StringArgument(<< >>), index>>), TRUE)
            /\ \A replace_string \in Replacements :
                LET ins == Instruction("SETCHAR", <<GFx, index, replace_string>>)
                    fault == Outside(index, Len(s)) \/ replace_string.value.v = << >>
                IN
                /\ Exits58Iff(ins, fault)
                /\ ~fault =>
                    /\ Execute(Mem, ins).exit_code = NoExit
                    /\ Stored(Execute(Mem, ins), GFx).t = "str"
                    /\ ReplacedAt(Stored(Execute(Mem, ins), GFx).v, s,
                                  int_value(index.value.v), replace_string.value.v[1])

----------------------------------------------------------------------------
\* The operand stack and the frames (SpecStore).

\* n has the operand stack, the call stack and the labels of m, and every
\* binding of the global frame of m.
KeepsStacks(m, n) ==
    /\ n.stack = m.stack
    /\ n.call_stack = m.call_stack
    /\ n.labels = m.labels
    /\ \A name \in DOMAIN m.global_frame :
        /\ name \in DOMAIN n.global_frame
        /\ n.global_frame[name] = m.global_frame[name]

\* Dict d without the key.
Without(d, key) == [k \in (DOMAIN d) \ {key} |-> d[k]]

\* The frames of m, and which of them is the local frame, with the binding of
\* the variable left out.
BindingsBut(m, variable) ==
    <<IF variable.frame = "GF" THEN Without(m.global_frame, variable.name)
      ELSE m.global_frame,
      IF variable.frame = "TF" /\ ~m.temporary_frame.is_none
      THEN SomeFrame(Without(m.temporary_frame.dict, variable.name))
      ELSE m.temporary_frame,
      [i \in DOMAIN m.frame_stack |->
          IF variable.frame = "LF" /\ ~m.local_frame.is_none /\ i = m.local_frame.at
          THEN Without(m.frame_stack[i], variable.name)
          ELSE m.frame_stack[i]],
      m.local_frame>>

\* n differs from m in nothing but the operand stack and the binding of the
\* variable, which n has when m has it (and the program counter and the exit).
OnlyPopped(m, n, variable) ==
    /\ BindingsBut(n, variable) = BindingsBut(m, variable)
    /\ Bound(n, variable) <=> Bound(m, variable)
    /\ n = [m EXCEPT !.stack = n.stack,
                     !.global_frame = n.global_frame,
                     !.temporary_frame = n.temporary_frame,
                     !.frame_stack = n.frame_stack,
                     !.program_counter = n.program_counter,
                     !.exit_code = n.exit_code]

\* C25: CREATEFRAME, PUSHFRAME, POPFRAME and DEFVAR leave the operand stack,
\* the call stack, the labels and the bindings the global frame has as they
\* are; PUSHS, CALL, RETURN, JUMP and LABEL leave the temporary frame, the
\* local frame, the frame stack and every binding as they are; POPS changes
\* no more than the binding of its destination and the operand stack.
C25_StacksAndFramesApart ==
    Running =>
        \A ins \in StoreInstructions :
            LET done == Execute(Mem, ins) IN
            /\ ins.opcode \in {"CREATEFRAME", "PUSHFRAME", "POPFRAME", "DEFVAR"} =>
                    KeepsStacks(Mem, done)
            /\ ins.opcode \in {"PUSHS", "CALL", "RETURN", "JUMP", "LABEL"} =>
                    /\ Bindings(done) = Bindings(Mem)
                    /\ get_frame(done, "LF") = get_frame(Mem, "LF")
            /\ ins.opcode = "POPS" => OnlyPopped(Mem, done, ins.arguments[1])

\* The operand stack, the call stack and the labels hold something, every
\* frame holds a value in x, the global frame has y too, and each kind of
\* instruction acts: CREATEFRAME, PUSHFRAME and POPFRAME change the frames,
\* PUSHS and the POPS into each x change the operand stack, CALL and RETURN
\* the call stack, and JUMP the program counter.
C25_Witness ==
    LET After(op, arguments) == Execute(Mem, Instruction(op, arguments)) IN
    /\ Running
    /\ stack # << >> /\ call_stack # << >> /\ labels # EmptyDict
    /\ \A f \in Frames :
        /\ Bound(Mem, VariableArgument(f, "x"))
        /\ Stored(Mem, VariableArgument(f, "x")) # None
    /\ Bound(Mem, VariableArgument("GF", "y"))
    /\ \A op \in {"CREATEFRAME", "PUSHFRAME", "POPFRAME"} :
        /\ After(op, << >>).exit_code = NoExit
        /\ Bindings(After(op, << >>)) # Bindings(Mem)
    /\ After("PUSHS", <<IntegerArgument(<<49>>)>>).stack # stack
    /\ \A f \in Frames : After("POPS", <<VariableArgument(f, "x")>>).stack # stack
    /\ \A op \in {"CALL", "RETURN"} :
        After(op, IF op = "CALL" THEN <<LabelArgument("a")>> ELSE << >>).call_stack
            # call_stack
    /\ After("JUMP", <<LabelArgument("a")>>).program_counter # program_counter + 1

----------------------------------------------------------------------------
\* Labels that are not defined (Spec).

\* The names of the labels of the programs.
LabelNames == {"a", "b"}

\* Pairs of operands of a conditional jump: equal and unequal values of one
\* type, two nils, one nil, two types, and a variable that is not defined.
JumpOperands ==
    LET one == IntegerArgument(<<49>>) IN
    {<<one, one>>, <<one, IntegerArgument(<<50>>)>>,
     <<StringArgument(<<97>>), StringArgument(<< >>)>>,
     <<NilArgument, NilArgument>>, <<one, NilArgument>>,
     <<one, BooleanArgument(TRUE)>>, <<VariableArgument("GF", "x"), one>>}

\* The operands of a conditional jump can be read and compared: both are
\* literals, of one type.
Comparable(a, b) ==
    /\ a.type # "var" /\ b.type # "var"
    /\ a.value.t = b.value.t

\* m after the fetch of an instruction that does nothing else / that exits
\* with 52 and does nothing else.
Through(m) == increment_program_counter(m)
Exits52(m) == sys_exit(increment_program_counter(m), SEMANTIC_ERROR_CODE)

\* JUMP and CALL to label l exit with 52 and change nothing, the call stack
\* neither.
JumpAndCallExit52(l) ==
    \A op \in {"JUMP", "CALL"} :
        Execute(Mem, Instruction(op, <<LabelArgument(l)>>)) = Exits52(Mem)

\* C26 as stated: with a label that is not defined, JUMPIFEQ exits with 52
\* when its operands are equal and JUMPIFNEQ when they are not, and otherwise
\* they go on to the next instruction with no exit, whatever the operands;
\* JUMP and CALL exit with 52, CALL with nothing pushed.
C26_UnknownLabelExits52IffTaken ==
    Running =>
        \A l \in LabelNames \ DOMAIN labels :
            /\ JumpAndCallExit52(l)
            /\ \A pair \in JumpOperands :
                LET a == pair[1]
                    b == pair[2]
                    equal == a.type # "var" /\ b.type # "var" /\ a.value = b.value
                IN
                /\ Execute(Mem, Instruction("JUMPIFEQ", <<LabelArgument(l), a, b>>))
                        = (IF equal THEN Exits52(Mem) ELSE Through(Mem))
                /\ Execute(Mem, Instruction("JUMPIFNEQ", <<LabelArgument(l), a, b>>))
                        = (IF equal THEN Through(Mem) ELSE Exits52(Mem))

\* C26: with a label that is not defined, a JUMPIFEQ or JUMPIFNEQ whose
\* operands are literals of one type exits with 52 when that is the outcome
\* of the comparison that jumps, and otherwise goes on to the next
\* instruction with no exit; with any other operands it exits with the code
\* it exits with when the label is defined, which is not 52; JUMP and CALL
\* exit with 52, CALL with nothing pushed.
C26_LabelResolvedWhenTaken ==
    AtInstruction =>
        LET fetched == increment_program_counter(Mem)
            exits52 == sys_exit(fetched, SEMANTIC_ERROR_CODE)
        IN
        \A l \in LabelNames \ DOMAIN labels :
            LET arguments(pair) == <<LabelArgument(l), pair[1], pair[2]>>
                defined == [fetched EXCEPT !.labels = DictSet(@, l, 1)]
            IN
            /\ JumpInstruction(fetched, <<LabelArgument(l)>>) = exits52
            /\ CallInstruction(fetched, <<LabelArgument(l)>>) = exits52
            /\ \A pair \in JumpOperands :
                LET eq == JumpIfEqInstruction(fetched, arguments(pair))
                    neq == JumpIfNeqInstruction(fetched, arguments(pair))
                IN
                IF Comparable(pair[1], pair[2])
                THEN IF pair[1].value = pair[2].value
                     THEN eq = exits52 /\ neq = fetched
                     ELSE eq = fetched /\ neq = exits52
                ELSE /\ eq.exit_code \notin {NoExit, ExitWith(SEMANTIC_ERROR_CODE)}
                     /\ eq = exited(fetched, eq.exit_code)
                     /\ eq.exit_code
                            = JumpIfEqInstruction(defined, arguments(pair)).exit_code
                     /\ neq = eq
                     /\ neq.exit_code
                            = JumpIfNeqInstruction(defined, arguments(pair)).exit_code

\* The run has ended with the 52 of a JUMPIFNEQ of 1 and 2 to label a, which
\* is not defined, after the JUMPIFEQ of 1 and 2 to the same label went on
\* to it with no exit.
C26_Witness ==
    LET one == IntegerArgument(<<49>>)
        two == IntegerArgument(<<50>>)
    IN
    /\ exit_code = ExitWith(SEMANTIC_ERROR_CODE)
    /\ program_counter = 2
    /\ labels = EmptyDict
    /\ program[1] = Instruction("JUMPIFEQ", <<LabelArgument("a"), one, two>>)
    /\ program[2] = Instruction("JUMPIFNEQ", <<LabelArgument("a"), one, two>>)

----------------------------------------------------------------------------
\* The range of the program counter (Spec).

\* The program counter, the orders the labels hold and the return addresses
\* on the call stack are within the program.
WithinProgram(m) ==
    /\ m.program_counter \in 0..Len(program)
    /\ \A l \in DOMAIN m.labels : m.labels[l] \in 1..Len(program)
    /\ \A i \in 1..Len(m.call_stack) : m.call_stack[i] \in 1..Len(program)

\* The step leaves the program counter after the instruction it fetched, or
\* the instruction is a jump or a CALL and the step leaves it at the order the
\* labels held for its label, or the instruction is a RETURN and the step
\* leaves it at the return address that was on top of the call stack.
CounterStep ==
    \/ program_counter' = program_counter
    \/ /\ AtInstruction
       /\ \/ program_counter' = program_counter + 1
          \/ /\ instruction_tag.opcode \in {"JUMP", "JUMPIFEQ", "JUMPIFNEQ", "CALL"}
             /\ instruction_tag.arguments[1].value.v \in DOMAIN labels
             /\ program_counter' = labels[instruction_tag.arguments[1].value.v]
          \/ /\ instruction_tag.opcode = "RETURN"
             /\ call_stack # << >>
             /\ program_counter' = call_stack[Len(call_stack)]

\* C27: the program counter is always between 0 and the length of the
\* program, every order the labels hold and every return address on the call
\* stack is between 1 and the length, also after a RETURN, which leaves the
\* program counter at the address it takes from the call stack; and a step
\* changes the program counter only by the increment of the fetch, by a jump
\* or CALL to the order of its label, or by a RETURN to the address on top of
\* the call stack.
C27_CounterWithinProgram ==
    /\ [](/\ WithinProgram(Mem)
          /\ (Running /\ call_stack # << >>) =>
                LET returned == ReturnInstruction(increment_program_counter(Mem), << >>) IN
                /\ returned.program_counter = call_stack[Len(call_stack)]
                /\ WithinProgram(returned))
    /\ [][CounterStep]_vars

\* The program runs after a CALL that went back to its label: the label holds
\* an order, the call stack the return address, which is the length of the
\* program, and the program counter is at the label's order, before the CALL.
C27_Witness ==
    /\ Running
    /\ program_counter > 0
    /\ program[program_counter].opcode = "LABEL"
    /\ program[Len(program)].opcode = "CALL"
    /\ labels # EmptyDict
    /\ \E l \in DOMAIN labels : labels[l] = program_counter
    /\ call_stack = <<Len(program)>>

----------------------------------------------------------------------------
\* Programs without jumps (SpecStraight).

\* The opcodes that change the program counter.
JumpOpcodes == {"JUMP", "JUMPIFEQ", "JUMPIFNEQ", "CALL", "RETURN"}

\* The program has no instruction that changes the program counter.
Straight == \A i \in 1..Len(program) : program[i].opcode \notin JumpOpcodes

\* A turn of the loop: the instruction after the program counter, and no
\* other, is executed, and the program counter is left right after it.
Turn ==
    /\ AtInstruction
    /\ Mem' = Execute(Mem, instruction_tag)
    /\ program_counter' = program_counter + 1

\* The end of the loop: the process exits with 0 at the end of the program.
Ends ==
    /\ Running
    /\ program_counter = Len(program)
    /\ Mem' = sys_exit(Mem, 0)

\* How the process has exited: with 0 at the end of the program, with the
\* code of the EXIT instruction it executed last, or with an error status.
Halted ==
    \/ exit_code = ExitWith(0) /\ program_counter = Len(program)
    \/ /\ program_counter > 0
       /\ program[program_counter].opcode = "EXIT"
       /\ exit_code \in {ExitWith(n) : n \in 0..49}
    \/ exit_code # NoExit /\ exit_code # ExitWith(0)

\* C28: a program without jumps executes its instructions one after the
\* other, each turn of the loop the instruction after the one of the turn
\* before, so that the program counter counts the turns and never exceeds the
\* length of the program; and the process exits in the end, with 0 at the
\* end of the program, with the code of an EXIT, or with an error status.
C28_StraightProgramHalts ==
    /\ [][Straight => (Turn \/ Ends)]_vars
    /\ [](Straight => program_counter \in 0..Len(program))
    /\ []((Straight /\ exit_code # NoExit) => Halted)
    /\ <>(Straight => exit_code # NoExit)

\* The process has exited with the 12 it read, at the EXIT that is the last
\* of the three instructions of the program, after a DEFVAR and a READ.
C28_Witness ==
    /\ Straight
    /\ Len(program) = 3
    /\ program[1].opcode = "DEFVAR"
    /\ program[2].opcode = "READ"
    /\ program[3].opcode = "EXIT"
    /\ program_counter = 3
    /\ exit_code = ExitWith(12)
    /\ stdin = << >>

=============================================================================
